---- MODULE Spec2Model ----
(***************************************************************************)
(* Tool-call extraction (tool_parser.py, Qwen3CoderToolParser) and the     *)
(* streaming aggregator (qwen_server.py, stream_chat_completion).          *)
(*                                                                         *)
(* A text is a sequence of one-character strings.  Positions are 1-based   *)
(* as in TLA+; where the source compares a 0-based index (str.find,        *)
(* str.rfind) the operators PyFind and PyRfind return the Python value.    *)
(***************************************************************************)
EXTENDS Integers, Sequences, FiniteSets, TLC

VARIABLES
  text,                       \* the complete text: the engine's output, or the parser's input
  fragLen,                    \* characters per fragment (0: the whole text in one fragment)
  pos,                        \* characters of text the engine has delivered so far
  metaSeen,                   \* choice-less chunks delivered so far
  pc,                         \* "loop" (line 207), "flush" (line 319), "done", or "parse"/"parsed"
  content_buffer,
  yielded_text_length,
  tool_call_detected,
  tokens_since_tool_detected,
  finished_with_tool_calls,
  frames,                     \* the frames yielded so far, in order
  segs,                       \* the pieces text is made of (indices into Vocab)
  schema,                     \* the tool schema handed to parse_tool_calls
  result,                     \* what parse_tool_calls(text, tools) did
  engine_response,            \* the choices of the engine's non-streaming response
  response,                   \* the choices after _process_tool_calls
  consumed,                   \* the chunks the for loop of line 207 got from response_generator so far
  peer                        \* a second response, suspended at a yield (NoPeer: there is none)

vars == <<text, fragLen, pos, metaSeen, pc, content_buffer, yielded_text_length,
          tool_call_detected, tokens_since_tool_detected, finished_with_tool_calls,
          frames, segs, schema, result, engine_response, response, consumed, peer>>

\* the variables of the non-streaming path
process_vars == <<engine_response, response>>

\* no second response
NoPeer == <<>>

----------------------------------------------------------------------------
(* Strings *)

MinOf(S) == CHOOSE x \in S : \A y \in S : x <= y
MaxOf(S) == CHOOSE x \in S : \A y \in S : x >= y

\* t occurs in s at position i
MatchAt(s, t, i) ==
  /\ i >= 1
  /\ i + Len(t) - 1 <= Len(s)
  /\ (t = <<>> \/ s[i] = t[1])
  /\ \A j \in 1..Len(t) : s[i + j - 1] = t[j]

\* first position >= from at which t occurs in s, 0 if none
Find(s, t, from) ==
  LET hits == {i \in from..(Len(s) - Len(t) + 1) : MatchAt(s, t, i)}
  IN IF hits = {} THEN 0 ELSE MinOf(hits)

\* Python: t in s
Contains(s, t) == \E i \in 1..(Len(s) - Len(t) + 1) : MatchAt(s, t, i)

\* Python: s.find(t), 0-based, -1 if absent
PyFind(s, t) == Find(s, t, 1) - 1

\* Python: s.rfind(c) for a single character c, 0-based, -1 if absent
PyRfind(s, c) ==
  LET hits == {i \in 1..Len(s) : s[i] = c}
  IN IF hits = {} THEN -1 ELSE MaxOf(hits) - 1

\* Python: s[:n], also for a negative n
PyPrefix(s, n) ==
  IF n >= 0 THEN SubSeq(s, 1, IF n < Len(s) THEN n ELSE Len(s))
  ELSE SubSeq(s, 1, IF Len(s) + n > 0 THEN Len(s) + n ELSE 0)

\* Python: s[n:] for 0 <= n
PySuffix(s, n) == SubSeq(s, n + 1, Len(s))

\* Python: s.startswith(t)
StartsWith(s, t) == MatchAt(s, t, 1)

Whitespace == {" ", "\n", "\t", "\r"}

\* Python: s.strip(chars)
StripChars(s, chars) ==
  LET keep == {i \in 1..Len(s) : s[i] \notin chars}
  IN IF keep = {} THEN <<>> ELSE SubSeq(s, MinOf(keep), MaxOf(keep))

\* Python: s.strip()
Strip(s) == StripChars(s, Whitespace)

\* the subsequence of s at the positions in keep, in order
Pick(s, keep) ==
  [k \in 1..Cardinality(keep) |->
     s[CHOOSE i \in keep : Cardinality({j \in keep : j < i}) = k - 1]]

UpperCase == <<"A","B","C","D","E","F","G","H","I","J","K","L","M",
               "N","O","P","Q","R","S","T","U","V","W","X","Y","Z">>
LowerCase == <<"a","b","c","d","e","f","g","h","i","j","k","l","m",
               "n","o","p","q","r","s","t","u","v","w","x","y","z">>

\* Python: s.lower()
Lower(s) ==
  [i \in 1..Len(s) |->
     IF \E k \in 1..26 : UpperCase[k] = s[i]
     THEN LowerCase[CHOOSE k \in 1..26 : UpperCase[k] = s[i]]
     ELSE s[i]]

\* first position >= i that is past the end of s or holds no whitespace
SkipWs(s, i) ==
  LET stops == {j \in i..Len(s) : s[j] \notin Whitespace}
  IN IF stops = {} THEN (IF i > Len(s) THEN i ELSE Len(s) + 1) ELSE MinOf(stops)

\* the position at which the regex $ matches at or after `from`: the end of s,
\* or just before a final newline
Dollar(s, from) ==
  IF Len(s) >= from /\ s[Len(s)] = "\n" THEN Len(s) ELSE Len(s) + 1

----------------------------------------------------------------------------
(* Tags and names of tool_parser.py *)

tool_call_start_token == <<"<","t","o","o","l","_","c","a","l","l",">">>
tool_call_end_token == <<"<","/","t","o","o","l","_","c","a","l","l",">">>
function_prefix == <<"<","f","u","n","c","t","i","o","n","=">>
function_end_token == <<"<","/","f","u","n","c","t","i","o","n",">">>
parameter_prefix == <<"<","p","a","r","a","m","e","t","e","r","=">>
parameter_end_token == <<"<","/","p","a","r","a","m","e","t","e","r",">">>

todowrite == <<"t","o","d","o","w","r","i","t","e">>
writetodos == <<"w","r","i","t","e","t","o","d","o","s">>
tasks == <<"t","a","s","k","s">>
task == <<"t","a","s","k">>
webfetch == <<"w","e","b","f","e","t","c","h">>
bash == <<"b","a","s","h">>
prompt == <<"p","r","o","m","p","t">>
url == <<"u","r","l">>
command == <<"c","o","m","m","a","n","d">>
todos == <<"t","o","d","o","s">>

----------------------------------------------------------------------------
(* The decoders the parser calls (json.loads, ast.literal_eval, json.dumps). *)
(* They are library code; what is modelled is their verdict on the bodies    *)
(* the inputs below can produce: lists, the empty object, sets, and integers *)
(* written with the digit 1, separated by commas and whitespace.  Any other  *)
(* character makes both decoders fail.                                       *)

RECURSIVE JsonValue(_, _), JsonItems(_, _)
\* the position after the JSON value that starts at i, 0 if there is none
JsonValue(s, i) ==
  IF i > Len(s) THEN 0
  ELSE IF s[i] = "1" THEN
    LET stops == {j \in i..Len(s) : s[j] # "1"}
    IN IF stops = {} THEN Len(s) + 1 ELSE MinOf(stops)
  ELSE IF s[i] = "[" THEN
    LET j == SkipWs(s, i + 1)
    IN IF j <= Len(s) /\ s[j] = "]" THEN j + 1 ELSE JsonItems(s, j)
  ELSE IF s[i] = "{" THEN
    LET j == SkipWs(s, i + 1)
    IN IF j <= Len(s) /\ s[j] = "}" THEN j + 1 ELSE 0
  ELSE 0
\* value (, value)* ] from position i; the position after the ], 0 if malformed
JsonItems(s, i) ==
  LET e == JsonValue(s, i)
  IN IF e = 0 THEN 0
     ELSE LET j == SkipWs(s, e)
          IN IF j > Len(s) THEN 0
             ELSE IF s[j] = "]" THEN j + 1
             ELSE IF s[j] = "," THEN JsonItems(s, SkipWs(s, j + 1))
             ELSE 0

\* json.loads(s) succeeds
JsonDecodes(s) ==
  LET i == SkipWs(s, 1)
  IN /\ i <= Len(s)
     /\ LET e == JsonValue(s, i) IN e # 0 /\ SkipWs(s, e) = Len(s) + 1

RECURSIVE PyValue(_, _, _), PyItems(_, _, _, _)
\* the position after the Python literal that starts at i, 0 if there is none;
\* `hashable`: the literal is an element of a set (a list, dict or set there
\* makes literal_eval raise TypeError)
PyValue(s, i, hashable) ==
  IF i > Len(s) THEN 0
  ELSE IF s[i] = "1" THEN
    LET stops == {j \in i..Len(s) : s[j] # "1"}
    IN IF stops = {} THEN Len(s) + 1 ELSE MinOf(stops)
  ELSE IF hashable THEN 0
  ELSE IF s[i] = "[" THEN
    LET j == SkipWs(s, i + 1)
    IN IF j <= Len(s) /\ s[j] = "]" THEN j + 1 ELSE PyItems(s, j, "]", FALSE)
  ELSE IF s[i] = "{" THEN
    LET j == SkipWs(s, i + 1)
    IN IF j <= Len(s) /\ s[j] = "}" THEN j + 1 ELSE PyItems(s, j, "}", TRUE)
  ELSE 0
\* value (, value)* [,] close
PyItems(s, i, close, hashable) ==
  LET e == PyValue(s, i, hashable)
  IN IF e = 0 THEN 0
     ELSE LET j == SkipWs(s, e)
          IN IF j > Len(s) THEN 0
             ELSE IF s[j] = close THEN j + 1
             ELSE IF s[j] = "," THEN
               LET k == SkipWs(s, j + 1)
               IN IF k <= Len(s) /\ s[k] = close THEN k + 1
                  ELSE PyItems(s, k, close, hashable)
             ELSE 0

\* ast.literal_eval(s) succeeds
PyDecodes(s) ==
  LET i == SkipWs(s, 1)
  IN /\ i <= Len(s)
     /\ LET e == PyValue(s, i, FALSE) IN e # 0 /\ SkipWs(s, e) = Len(s) + 1

\* a decoded literal holds a set: a { whose next token is not }
HoldsSet(s) ==
  \E i \in 1..Len(s) :
    s[i] = "{" /\ LET j == SkipWs(s, i + 1) IN j <= Len(s) /\ s[j] # "}"

\* a comma that only precedes the closing bracket
TrailingComma(s, i) ==
  /\ s[i] = ","
  /\ LET j == SkipWs(s, i + 1) IN j <= Len(s) /\ (s[j] = "]" \/ s[j] = "}")

\* the decoded value, written without whitespace and trailing commas: two
\* bodies decode to equal values iff their Decoded texts are equal
Decoded(s) ==
  Pick(s, {i \in 1..Len(s) : s[i] \notin Whitespace /\ ~TrailingComma(s, i)})

----------------------------------------------------------------------------
(* Argument values.  kind "str": the string `text`; kind "data": the decoded *)
(* list/object `text`, `dumpable` iff json.dumps accepts it; kind "items":   *)
(* the list of todo dicts whose contents are `items`.                        *)

StrValue(s) == [kind |-> "str", text |-> s, items |-> <<>>, dumpable |-> TRUE]
DataValue(s) == [kind |-> "data", text |-> Decoded(s), items |-> <<>>, dumpable |-> ~HoldsSet(s)]
ItemsValue(it) == [kind |-> "items", text |-> <<>>, items |-> it, dumpable |-> TRUE]

\* Python: d[k] = v on a dict kept in insertion order
DictSet(d, k, v) ==
  IF \E i \in 1..Len(d) : d[i].name = k
  THEN [i \in 1..Len(d) |-> IF d[i].name = k THEN [name |-> k, value |-> v] ELSE d[i]]
  ELSE Append(d, [name |-> k, value |-> v])

\* the back-tick character, which a TLA+ string cannot hold
Backtick == "BACKTICK"

\* tool_parser.py 72-73
LooksStructured(v) ==
  /\ Len(v) >= 1
  /\ \/ v[1] = "[" /\ v[Len(v)] = "]"
     \/ v[1] = "{" /\ v[Len(v)] = "}"

\* every parameter body kept as the string it is, as if lines 72-81 were missing
CoerceValue_KeepsString(param_value) == StrValue(param_value)

\* tool_parser.py 70-83: the value stored for a trimmed parameter body
CoerceValue(param_value) ==
  IF LooksStructured(param_value) THEN
    LET cleaned == Strip(StripChars(param_value, {Backtick}))
    IN IF JsonDecodes(cleaned) THEN DataValue(cleaned)
       ELSE IF PyDecodes(param_value) THEN DataValue(param_value)
       ELSE StrValue(param_value)
  ELSE StrValue(param_value)

----------------------------------------------------------------------------
(* json.dumps(arguments), tool_parser.py 143: the text of the JSON object,  *)
(* with the default separators ", " and ": ".  A string is written between  *)
(* double quotes with its quotes, backslashes and control characters        *)
(* escaped; the other characters of the texts above are printable ASCII and *)
(* are written as they are.                                                 *)

Quote == "\""
Backslash == "\\"

\* the text json.dumps writes for one character of a string
EscapedChar(c) ==
  IF c = Quote THEN <<Backslash, Quote>>
  ELSE IF c = Backslash THEN <<Backslash, Backslash>>
  ELSE IF c = "\n" THEN <<Backslash, "n">>
  ELSE IF c = "\r" THEN <<Backslash, "r">>
  ELSE IF c = "\t" THEN <<Backslash, "t">>
  ELSE <<c>>

RECURSIVE EscapedFrom(_, _)
EscapedFrom(s, k) ==
  IF k > Len(s) THEN <<>> ELSE EscapedChar(s[k]) \o EscapedFrom(s, k + 1)

\* json.dumps of a string
DumpString(s) == <<Quote>> \o EscapedFrom(s, 1) \o <<Quote>>

RECURSIVE DumpDataFrom(_, _)
\* json.dumps of a decoded list/object, given its Decoded text: the item
\* separator is written ", "
DumpDataFrom(s, k) ==
  IF k > Len(s) THEN <<>>
  ELSE (IF s[k] = "," THEN <<",", " ">> ELSE <<s[k]>>) \o DumpDataFrom(s, k + 1)

Digits == <<"0","1","2","3","4","5","6","7","8","9">>

RECURSIVE Decimal(_)
\* str(n) for n >= 0
Decimal(n) ==
  IF n < 10 THEN <<Digits[n + 1]>> ELSE Decimal(n \div 10) \o <<Digits[(n % 10) + 1]>>

\* lines 113-118: json.dumps of the k-th todo item
DumpItem(content, k) ==
  <<"{","\"","i","d","\"",":"," ","\"","t","a","s","k","_">> \o Decimal(k)
    \o <<"\"",","," ","\"","c","o","n","t","e","n","t","\"",":"," ">> \o DumpString(content)
    \o <<","," ","\"","s","t","a","t","u","s","\"",":"," ","\"","p","e","n","d","i","n","g","\"",","," ","\"","p","r","i","o","r","i","t","y","\"",":"," ","\"","m","e","d","i","u","m","\"","}">>

RECURSIVE DumpItemsFrom(_, _)
DumpItemsFrom(items, k) ==
  IF k > Len(items) THEN <<>>
  ELSE (IF k > 1 THEN <<",", " ">> ELSE <<>>)
         \o DumpItem(items[k], k) \o DumpItemsFrom(items, k + 1)

\* json.dumps of an argument value
DumpValue(v) ==
  IF v.kind = "str" THEN DumpString(v.text)
  ELSE IF v.kind = "data" THEN DumpDataFrom(v.text, 1)
  ELSE <<"[">> \o DumpItemsFrom(v.items, 1) \o <<"]">>

RECURSIVE DumpEntriesFrom(_, _)
DumpEntriesFrom(arguments, k) ==
  IF k > Len(arguments) THEN <<>>
  ELSE (IF k > 1 THEN <<",", " ">> ELSE <<>>)
         \o DumpString(arguments[k].name) \o <<":", " ">>
         \o DumpValue(arguments[k].value)
         \o DumpEntriesFrom(arguments, k + 1)

\* line 143: json.dumps(arguments) for a mapping it can encode
json_dumps(arguments) == <<"{">> \o DumpEntriesFrom(arguments, 1) \o <<"}">>

----------------------------------------------------------------------------
(* The regular expressions of tool_parser.py *)

\* first ">" at or after position i, 0 if none
FindGt(s, i) ==
  LET hits == {j \in i..Len(s) : s[j] = ">"}
  IN IF hits = {} THEN 0 ELSE MinOf(hits)

RECURSIVE FuncBlocksFrom(_, _)
\* line 56: re.findall(r"<function=([^>]+)>(.*?)(?:</function>|$)", s, re.DOTALL),
\* the matches that start at or after `from`
FuncBlocksFrom(s, from) ==
  LET i == Find(s, function_prefix, from)
  IN IF i = 0 THEN <<>>
     ELSE
       LET ns == i + Len(function_prefix)
           g == FindGt(s, ns)
       IN IF g = 0 \/ g = ns THEN FuncBlocksFrom(s, i + 1)
          ELSE
            LET fe == Find(s, function_end_token, g + 1)
                e == IF fe # 0 THEN fe ELSE Dollar(s, g + 1)
                next == IF fe # 0 THEN fe + Len(function_end_token) ELSE e
            IN <<[func_name |-> SubSeq(s, ns, g - 1),
                  func_content |-> SubSeq(s, g + 1, e - 1)]>>
               \o FuncBlocksFrom(s, next)

func_blocks(model_output) == FuncBlocksFrom(model_output, 1)

RECURSIVE ParamMatchesFrom_OwnClosingOnly(_, _)
\* parameter_regex without its two lookaheads: the body runs to the
\* parameter's own </parameter>, or to $
ParamMatchesFrom_OwnClosingOnly(c, from) ==
  LET i == Find(c, parameter_prefix, from)
  IN IF i = 0 THEN <<>>
     ELSE
       LET ns == i + Len(parameter_prefix)
           g == FindGt(c, ns)
       IN IF g = 0 \/ g = ns THEN ParamMatchesFrom_OwnClosingOnly(c, i + 1)
          ELSE
            LET pe == Find(c, parameter_end_token, g + 1)
                e == IF pe # 0 THEN pe ELSE Dollar(c, g + 1)
                next == IF pe # 0 THEN e + Len(parameter_end_token) ELSE e
            IN <<[group1 |-> SubSeq(c, ns, g - 1),
                  group2 |-> SubSeq(c, g + 1, e - 1)]>>
               \o ParamMatchesFrom_OwnClosingOnly(c, next)

RECURSIVE ParamMatchesFrom(_, _)
\* lines 38-41, 63: parameter_regex.finditer(c), the matches that start at or
\* after `from`; the body runs to the earliest of </parameter> (consumed), the
\* next <parameter=, </function>, or $
ParamMatchesFrom(c, from) ==
  LET i == Find(c, parameter_prefix, from)
  IN IF i = 0 THEN <<>>
     ELSE
       LET ns == i + Len(parameter_prefix)
           g == FindGt(c, ns)
       IN IF g = 0 \/ g = ns THEN ParamMatchesFrom(c, i + 1)
          ELSE
            LET pe == Find(c, parameter_end_token, g + 1)
                stops == {Find(c, parameter_end_token, g + 1),
                          Find(c, parameter_prefix, g + 1),
                          Find(c, function_end_token, g + 1),
                          Dollar(c, g + 1)} \ {0}
                e == MinOf(stops)
                next == IF e = pe THEN e + Len(parameter_end_token) ELSE e
            IN <<[group1 |-> SubSeq(c, ns, g - 1),
                  group2 |-> SubSeq(c, g + 1, e - 1)]>>
               \o ParamMatchesFrom(c, next)

param_matches(func_content) == ParamMatchesFrom(func_content, 1)

RECURSIVE ToolCallSpansFrom(_, _)
\* lines 32-34: tool_call_regex.findall(s), the bodies of the matches that
\* start at or after `from`: <tool_call>(.*?)</tool_call>, or for a wrapper
\* that is not closed <tool_call>(.*?)$
ToolCallSpansFrom(s, from) ==
  LET i == Find(s, tool_call_start_token, from)
  IN IF i = 0 THEN <<>>
     ELSE
       LET b == i + Len(tool_call_start_token)
           ce == Find(s, tool_call_end_token, b)
       IN IF ce # 0
          THEN <<SubSeq(s, b, ce - 1)>>
                 \o ToolCallSpansFrom(s, ce + Len(tool_call_end_token))
          ELSE <<SubSeq(s, b, Dollar(s, b) - 1)>>

tool_call_spans(model_output) == ToolCallSpansFrom(model_output, 1)

\* line 94: re.search(r"(\[.*?\])", s, re.DOTALL): the match, <<>> if none
array_match(s) ==
  LET a == Find(s, <<"[">>, 1)
      b == IF a = 0 THEN 0 ELSE Find(s, <<"]">>, a + 1)
  IN IF b = 0 THEN <<>> ELSE SubSeq(s, a, b)

\* the whitespace run that starts at i ends before this position
WsEnd(s, i) == SkipWs(s, i)

BulletClass == {"-", "*", ".", "0", "1", "2", "3", "4", "5", "6", "7", "8", "9"}

\* line 109: where a match of  ,\s*|\s+and\s+|\n\s*[\-\*...\d\.]+\s*  that starts
\* at i ends (the position after it), 0 if none starts at i
SeparatorEnd(s, i) ==
  IF i > Len(s) THEN 0
  ELSE IF s[i] = "," THEN WsEnd(s, i + 1)
  ELSE IF s[i] \in Whitespace THEN
    LET r == WsEnd(s, i)
        viaAnd == /\ MatchAt(s, <<"a","n","d">>, r)
                  /\ r + 3 <= Len(s)
                  /\ s[r + 3] \in Whitespace
        b == WsEnd(s, i + 1)
        stops == {j \in b..Len(s) : s[j] \notin BulletClass}
        be == IF stops = {} THEN Len(s) + 1 ELSE MinOf(stops)
    IN IF viaAnd THEN WsEnd(s, r + 3)
       ELSE IF s[i] = "\n" /\ be > b THEN WsEnd(s, be)
       ELSE 0
  ELSE 0

RECURSIVE SplitFrom(_, _)
\* line 109: re.split(...) of s from position `from` on
SplitFrom(s, from) ==
  LET hits == {i \in from..Len(s) : SeparatorEnd(s, i) # 0}
  IN IF hits = {} THEN <<SubSeq(s, from, Len(s))>>
     ELSE LET i == MinOf(hits)
          IN <<SubSeq(s, from, i - 1)>> \o SplitFrom(s, SeparatorEnd(s, i))

RECURSIVE PreambleItems(_, _)
\* lines 110-118: the contents of the todo items made of the pieces from k on
PreambleItems(pieces, k) ==
  IF k > Len(pieces) THEN <<>>
  ELSE
    LET cleaned == Strip(StripChars(Strip(pieces[k]), {".", ":", ";"}))
        low == Lower(cleaned)
        keep == /\ cleaned # <<>>
                /\ Len(cleaned) > 1
                /\ ~StartsWith(low, <<"i","'","l","l"," ","c","r","e","a","t","e">>)
                /\ ~StartsWith(low, <<"h","e","r","e"," ","i","s">>)
    IN (IF keep THEN <<cleaned>> ELSE <<>>) \o PreambleItems(pieces, k + 1)

----------------------------------------------------------------------------
(* parse_tool_calls, tool_parser.py 43-149.  The generated call id (line    *)
(* 139, a random token) is left out of a call.  In a call, `arguments` is   *)
(* the mapping built by lines 60-135 and `arguments_json` the string that   *)
(* line 143 stores under "arguments".                                       *)

RECURSIVE FormalArguments_SkipsEmpty(_, _, _)
\* the arguments when a parameter whose trimmed body is empty is left out
FormalArguments_SkipsEmpty(matches, k, arguments) ==
  IF k > Len(matches) THEN arguments
  ELSE
    LET param_name == Strip(matches[k].group1)
        param_value == Strip(matches[k].group2)
    IN FormalArguments_SkipsEmpty(matches, k + 1,
         IF param_name # <<>> /\ param_value # <<>>
         THEN DictSet(arguments, param_name, CoerceValue(param_value))
         ELSE arguments)

RECURSIVE FormalArguments(_, _, _)
\* lines 65-83: the arguments after the parameter matches from k on
FormalArguments(matches, k, arguments) ==
  IF k > Len(matches) THEN arguments
  ELSE
    LET param_name == Strip(matches[k].group1)
        param_value == Strip(matches[k].group2)
    IN FormalArguments(matches, k + 1,
         IF param_name # <<>>
         THEN DictSet(arguments, param_name, CoerceValue(param_value))
         ELSE arguments)

NotUnderscore(c) == c # "_"

\* line 90
norm_name(func_name) == SelectSeq(Lower(func_name), NotUnderscore)

\* lines 129-133; a name outside its keys raises KeyError at line 134
param_map_keys == {task, webfetch, bash}
param_map(func_name) ==
  IF func_name = task THEN prompt
  ELSE IF func_name = webfetch THEN url
  ELSE command

\* lines 92-122: the todo-list heuristic
TodoArguments(model_output) ==
  LET m == array_match(model_output)
      fromArray == m # <<>> /\ JsonDecodes(Strip(m))
      preamble == Strip(PyPrefix(model_output, PyFind(model_output, tool_call_start_token)))
      items == PreambleItems(SplitFrom(preamble, 1), 1)
  IN IF fromArray THEN <<[name |-> todos, value |-> DataValue(Strip(m))]>>
     ELSE IF items # <<>> THEN <<[name |-> todos, value |-> ItemsValue(items)]>>
     ELSE <<>>

\* lines 85-135: the arguments of a block without parameter tags;
\* `tools` is not consulted
HeuristicArguments(model_output, func_name, func_content, tools) ==
  LET norm == norm_name(func_name)
      remaining_text == Strip(func_content)
  IN IF norm \in {todowrite, writetodos, tasks}
     THEN [raised |-> FALSE, arguments |-> TodoArguments(model_output)]
     ELSE IF norm \in {task, webfetch, bash} /\ remaining_text # <<>>
     THEN IF func_name \in param_map_keys
          THEN [raised |-> FALSE,
                arguments |-> <<[name |-> param_map(func_name),
                                 value |-> StrValue(remaining_text)]>>]
          ELSE [raised |-> TRUE, arguments |-> <<>>]
     ELSE [raised |-> FALSE, arguments |-> <<>>]

\* line 143: json.dumps(arguments) raises TypeError on a value it cannot encode
Dumpable(arguments) == \A i \in 1..Len(arguments) : arguments[i].value.dumpable

\* the call appended whatever its name, as if line 137 were missing
CallOf_Unnamed(func_name, h) ==
  [raised |-> h.raised \/ ~Dumpable(h.arguments),
   appended |-> TRUE,
   call |-> [type |-> "function", name |-> func_name, arguments |-> h.arguments,
             arguments_json |-> IF Dumpable(h.arguments)
                                THEN json_dumps(h.arguments) ELSE <<>>]]

\* lines 137-147: the block's call, whether it is appended (line 137), whether
\* the iteration raised; h is what lines 60-135 made of the block
CallOf(func_name, h) ==
  [raised |-> h.raised \/ (func_name # <<>> /\ ~Dumpable(h.arguments)),
   appended |-> func_name # <<>>,
   call |-> [type |-> "function", name |-> func_name, arguments |-> h.arguments,
             arguments_json |-> IF Dumpable(h.arguments)
                                THEN json_dumps(h.arguments) ELSE <<>>]]

\* lines 60-135: the arguments of a block whose parameter matches are `matches`
ArgumentsOf(model_output, func_name, func_content, matches, tools) ==
  IF matches # <<>>
  THEN [raised |-> FALSE, arguments |-> FormalArguments(matches, 1, <<>>)]
  ELSE HeuristicArguments(model_output, func_name, func_content, tools)

\* lines 58-147, one iteration of the loop over the blocks
BlockCall(model_output, block, tools) ==
  CallOf(Strip(block.func_name),
         ArgumentsOf(model_output, Strip(block.func_name), block.func_content,
                     param_matches(block.func_content), tools))

\* what a raising call leaves: no return value
Raised == [raised |-> TRUE, found |-> FALSE, tool_calls |-> <<>>]

\* the returned pair with the flag set whenever the text held a function tag
Returned_AlwaysFound(tool_calls) ==
  [raised |-> FALSE, found |-> TRUE, tool_calls |-> tool_calls]

\* lines 50, 149: the returned pair
Returned(tool_calls) ==
  [raised |-> FALSE, found |-> Len(tool_calls) > 0, tool_calls |-> tool_calls]

RECURSIVE CallsFrom(_, _, _, _, _)
\* lines 58-149: the loop over the blocks from k on; b is the k-th iteration
CallsAfter(model_output, blocks, k, tool_calls, tools, b) ==
  IF b.raised THEN Raised
  ELSE CallsFrom(model_output, blocks, k + 1,
                 IF b.appended THEN Append(tool_calls, b.call) ELSE tool_calls,
                 tools)
CallsFrom(model_output, blocks, k, tool_calls, tools) ==
  IF k > Len(blocks) THEN Returned(tool_calls)
  ELSE CallsAfter(model_output, blocks, k, tool_calls, tools,
                  BlockCall(model_output, blocks[k], tools))

\* lines 43-149
parse_tool_calls(model_output, tools) ==
  IF ~Contains(model_output, function_prefix) THEN Returned(<<>>)
  ELSE CallsFrom(model_output, func_blocks(model_output), 1, <<>>, tools)

----------------------------------------------------------------------------
(* Inputs.  A text is the concatenation of at most MaxSegs (parser) or      *)
(* MaxStreamSegs (aggregator) pieces of Vocab: plain text, single tags, and *)
(* whole wrapped call blocks.                                               *)

MaxSegs == 2
MaxStreamSegs == 2

FunctionOpen(name) == function_prefix \o name \o <<">">>
ParameterOpen(name) == parameter_prefix \o name \o <<">">>
ParameterTag(name, body) == ParameterOpen(name) \o body \o parameter_end_token
\* <tool_call><function=NAME>BODY</function></tool_call>
Wrapped(name, body) ==
  tool_call_start_token \o FunctionOpen(name) \o body
    \o function_end_token \o tool_call_end_token

IM_START == <<"<","|","i","m","_","s","t","a","r","t","|",">">>
IM_END == <<"<","|","i","m","_","e","n","d","|",">">>
ENDOFTEXT == <<"<","|","e","n","d","o","f","t","e","x","t","|",">">>

Vocab == <<
  <<"a">>,                                               \*  1 plain text
  <<"<">>,                                               \*  2 a lone <
  tool_call_start_token,                                 \*  3
  tool_call_end_token,                                   \*  4
  FunctionOpen(<<"f">>),                                 \*  5
  function_end_token,                                    \*  6
  Wrapped(<<"f">>, <<>>),                                \*  7 well-formed, no parameter
  Wrapped(bash, <<"a">>),                                \*  8 raw body, a heuristic name
  Wrapped(<<"B","a","s","h">>, <<"a">>),                 \*  9 raw body, name not a key of param_map
  FunctionOpen(<<" ">>),                                 \* 10 a name that trims to nothing
  IM_END,                                                \* 11 a hard stop marker
  <<" ">>,                                               \* 12 whitespace
  <<"a","b",","," ","c","d">>,                           \* 13 a preamble that lists two items
  <<"<","p","a","r","a","m","e","t","e","r","=","p",">">>,  \* 14
  parameter_end_token,                                   \* 15
  <<"[","1","]">>,                                       \* 16 a JSON list
  <<"[","1",",","]">>,                                   \* 17 a Python list, not JSON
  Wrapped(<<"f">>, ParameterTag(<<"p">>, <<"a">>)),      \* 18 well-formed, one string parameter
  Wrapped(<<"f">>, ParameterTag(<<"p">>, <<"{","1","}">>)), \* 19 well-formed, a set literal
  Wrapped(tasks, <<>>),                                  \* 20 a todo-list name, no parameter
  Wrapped(<<"f">>, ParameterTag(<<"p">>, <<"[","1",",","]">>)),  \* 21 a Python list, not JSON
  Wrapped(<<"f">>, ParameterTag(<<"p">>,
          <<"\n","[","1",","," ","1","]","\n">>)),       \* 22 a JSON list between newlines
  Wrapped(<<"f">>, ParameterTag(<<"p">>, <<"[","a","]">>)),  \* 23 looks like a list, decodes as none
  Wrapped(<<"f">>, ParameterTag(<<"p">>,
          <<"a","\n","\"","b">>)),                     \* 24 a string with a newline and a quote
  Wrapped(<<"f">>, ParameterTag(<<"p">>, <<" ","{","}"," ">>)),  \* 25 the empty object between blanks
  Wrapped(<<"f">>, ParameterOpen(<<"p">>) \o <<"a">>
                     \o ParameterTag(<<"q">>, <<"b">>)), \* 26 an unclosed parameter, then a closed one
  Wrapped(<<"f">>, ParameterOpen(<<"p">>) \o <<"a">>),   \* 27 an unclosed parameter, then </function>
  FunctionOpen(<<"f">>) \o ParameterOpen(<<"p">>) \o <<"a">>,  \* 28 nothing closed
  tool_call_start_token \o FunctionOpen(<<"f">>),        \* 29 the two opening tags
  function_end_token \o IM_END,                          \* 30 a closing tag and a hard stop marker
  FunctionOpen(<<"B","a","s","h">>) \o <<"a">>,          \* 31 an unclosed call cut short, raw body
  Wrapped(<<"B","a","s","h">>, ParameterTag(<<"p">>, <<" ">>)),  \* 32 a blank parameter body
  Wrapped(<<"f">>, ParameterTag(<<"p">>,
          <<Backtick,"[","1","]",Backtick>>)),           \* 33 a JSON list in back-ticks
  Wrapped(<<"f">>, ParameterTag(<<"p">>,
          <<Backtick,"a",Backtick>>)),                   \* 34 plain text in back-ticks
  <<"a">> \o IM_END \o <<"b">>                           \* 35 text around a hard stop marker
>>

StreamPieces == 1..12
ParsePieces == (1..28) \cup (31..34)

\* texts the engine delivers piece by piece, each piece in a chunk of its own
\* (it releases several tokens at once after holding them back); no piece is
\* longer than the first
Bursts == {<<29, 30>>, <<29, 6>>, <<5, 11>>, <<31>>, <<35>>}

\* the sequences of at most n pieces
RECURSIVE SeqsUpTo(_, _)
SeqsUpTo(S, n) ==
  IF n = 0 THEN {<<>>}
  ELSE LET shorter == SeqsUpTo(S, n - 1)
       IN shorter \cup {Append(q, x) : q \in {r \in shorter : Len(r) = n - 1}, x \in S}

RECURSIVE Flatten(_, _)
\* the concatenation of the pieces of q from k on
Flatten(q, k) == IF k > Len(q) THEN <<>> ELSE Vocab[q[k]] \o Flatten(q, k + 1)

\* the tool schemas: none, or a list of tools with their required parameters
NoTools == [given |-> FALSE, entries |-> <<>>]
Schemas == {
  NoTools,
  [given |-> TRUE, entries |-> <<[name |-> bash, required |-> <<command>>]>>],
  [given |-> TRUE, entries |-> <<[name |-> <<"f">>, required |-> <<<<"p">>>>]>>],
  [given |-> TRUE, entries |-> <<[name |-> <<"f">>, required |-> <<<<"p">>, <<"q">>>>]>>] }

NoResult == [raised |-> FALSE, found |-> FALSE, tool_calls |-> <<>>]

----------------------------------------------------------------------------
(* The parser alone: one call of parse_tool_calls(text, schema) *)

ParseInit ==
  /\ segs \in SeqsUpTo(ParsePieces, MaxSegs)
  /\ text = Flatten(segs, 1)
  /\ schema \in Schemas
  /\ pc = "parse"
  /\ result = NoResult
  /\ fragLen = 0 /\ pos = 0 /\ metaSeen = 0
  /\ content_buffer = <<>> /\ yielded_text_length = 0
  /\ tool_call_detected = FALSE /\ tokens_since_tool_detected = 0
  /\ finished_with_tool_calls = FALSE /\ frames = <<>>
  /\ engine_response = <<>> /\ response = <<>>
  /\ consumed = <<>> /\ peer = NoPeer

Parse ==
  /\ UNCHANGED <<process_vars, consumed, peer>>
  /\ pc = "parse"
  /\ result' = parse_tool_calls(text, schema)
  /\ pc' = "parsed"
  /\ UNCHANGED <<text, segs, schema, fragLen, pos, metaSeen, content_buffer,
                 yielded_text_length, tool_call_detected, tokens_since_tool_detected,
                 finished_with_tool_calls, frames>>

ParseNext == Parse

SpecParse == ParseInit /\ [][ParseNext]_vars

----------------------------------------------------------------------------
(* stream_chat_completion, qwen_server.py 195-398.                          *)
(* A frame is one yielded "data: ..." line.  kind "content": a chunk whose  *)
(* delta holds text; "tool_call": a tool-call delta; "finish": a chunk with *)
(* an empty delta; "passthrough": a chunk without choices, forwarded as is; *)
(* "error": the error object; "done": the [DONE] sentinel.  finish is the   *)
(* chunk's finish_reason, "null" for None or for a frame without choices.   *)
(* The identity fields (id, model, created) are left out of a frame.        *)

NoName == <<>>
NoArguments == <<>>

ContentFrame(content, finish) ==
  [kind |-> "content", content |-> content, finish |-> finish,
   index |-> 0, name |-> NoName, arguments |-> NoArguments]
ToolCallFrame(idx, tc) ==
  [kind |-> "tool_call", content |-> <<>>, finish |-> "null",
   index |-> idx, name |-> tc.name, arguments |-> tc.arguments]
FinishFrame(finish) ==
  [kind |-> "finish", content |-> <<>>, finish |-> finish,
   index |-> 0, name |-> NoName, arguments |-> NoArguments]
PassThroughFrame ==
  [kind |-> "passthrough", content |-> <<>>, finish |-> "null",
   index |-> 0, name |-> NoName, arguments |-> NoArguments]
ErrorFrame ==
  [kind |-> "error", content |-> <<>>, finish |-> "null",
   index |-> 0, name |-> NoName, arguments |-> NoArguments]
DoneFrame ==
  [kind |-> "done", content |-> <<>>, finish |-> "null",
   index |-> 0, name |-> NoName, arguments |-> NoArguments]

\* lines 272-294, 327-349: one tool-call delta per call, index 0, 1, ...
ToolCallFrames(tool_calls) ==
  [i \in 1..Len(tool_calls) |-> ToolCallFrame(i - 1, tool_calls[i])]

\* line 226
WatchdogLimit == 500

\* line 231
stop_indicators == {IM_START, IM_END, ENDOFTEXT}

\* the early breaks without lines 230-234: only the watchdog ends the loop
BreaksEarly_WatchdogOnly(buffer, yielded, detected, tokens, content) ==
  /\ content # <<>>
  /\ detected /\ tokens > WatchdogLimit

\* lines 220-234: the fragment's text ends the loop before anything is emitted
\* (`tokens` is the counter after line 225)
BreaksEarly(buffer, yielded, detected, tokens, content) ==
  /\ content # <<>>
  /\ \/ detected /\ tokens > WatchdogLimit
     \/ \E indicator \in stop_indicators : Find(buffer, indicator, yielded + 1) # 0

\* PlainStep without the hold-back of lines 253-260: all unflushed text is
\* yielded as soon as it arrives
PlainStep_NoHoldback(buffer, yielded, content, finish_reason) ==
  IF Contains(buffer, tool_call_start_token) \/ Contains(buffer, function_prefix) THEN
    LET trigger == IF Contains(buffer, tool_call_start_token)
                   THEN tool_call_start_token ELSE function_prefix
        text_before == PyPrefix(buffer, PyFind(buffer, trigger))
    IN IF Len(text_before) > yielded
       THEN [detected |-> TRUE,
             out |-> <<ContentFrame(PySuffix(text_before, yielded), finish_reason)>>,
             yielded |-> Len(text_before)]
       ELSE [detected |-> TRUE, out |-> <<>>, yielded |-> yielded]
  ELSE
    IF PySuffix(buffer, yielded) # <<>>
    THEN [detected |-> FALSE,
          out |-> <<ContentFrame(PySuffix(buffer, yielded), finish_reason)>>,
          yielded |-> Len(buffer)]
    ELSE [detected |-> FALSE, out |-> <<>>, yielded |-> yielded]

\* PlainStep with the length of the buffer added to yielded_text_length at
\* line 265 instead of assigned to it
PlainStep_Accumulates(buffer, yielded, content, finish_reason) ==
  IF Contains(buffer, tool_call_start_token) \/ Contains(buffer, function_prefix) THEN
    LET trigger == IF Contains(buffer, tool_call_start_token)
                   THEN tool_call_start_token ELSE function_prefix
        text_before == PyPrefix(buffer, PyFind(buffer, trigger))
    IN IF Len(text_before) > yielded
       THEN [detected |-> TRUE,
             out |-> <<ContentFrame(PySuffix(text_before, yielded), finish_reason)>>,
             yielded |-> Len(text_before)]
       ELSE [detected |-> TRUE, out |-> <<>>, yielded |-> yielded]
  ELSE
    LET last_lt == PyRfind(buffer, "<")
    IN IF last_lt > yielded
       THEN [detected |-> FALSE,
             out |-> <<ContentFrame(SubSeq(buffer, yielded + 1, last_lt), finish_reason)>>,
             yielded |-> last_lt]
       ELSE IF last_lt = -1 /\ PySuffix(buffer, yielded) # <<>>
       THEN [detected |-> FALSE,
             out |-> <<ContentFrame(content, finish_reason)>>,
             yielded |-> yielded + Len(buffer)]
       ELSE [detected |-> FALSE, out |-> <<>>, yielded |-> yielded]

\* lines 237-265: the text frame (none: <<>>) and the new yielded_text_length
\* of a fragment seen while no tool call is detected
PlainStep(buffer, yielded, content, finish_reason) ==
  IF Contains(buffer, tool_call_start_token) \/ Contains(buffer, function_prefix) THEN
    LET trigger == IF Contains(buffer, tool_call_start_token)
                   THEN tool_call_start_token ELSE function_prefix
        text_before == PyPrefix(buffer, PyFind(buffer, trigger))
    IN IF Len(text_before) > yielded
       THEN [detected |-> TRUE,
             out |-> <<ContentFrame(PySuffix(text_before, yielded), finish_reason)>>,
             yielded |-> Len(text_before)]
       ELSE [detected |-> TRUE, out |-> <<>>, yielded |-> yielded]
  ELSE
    LET last_lt == PyRfind(buffer, "<")
    IN IF last_lt > yielded
       THEN [detected |-> FALSE,
             out |-> <<ContentFrame(SubSeq(buffer, yielded + 1, last_lt), finish_reason)>>,
             yielded |-> last_lt]
       ELSE IF last_lt = -1 /\ PySuffix(buffer, yielded) # <<>>
       THEN [detected |-> FALSE,
             out |-> <<ContentFrame(content, finish_reason)>>,
             yielded |-> Len(buffer)]
       ELSE [detected |-> FALSE, out |-> <<>>, yielded |-> yielded]

\* line 269
ClosingMarkerSeen(buffer) ==
  Contains(buffer, tool_call_end_token) \/ Contains(buffer, function_end_token)

\* the end of an iteration without lines 312-314: the engine's finish reason
\* does not end the loop
Completed_IgnoresFinish(buffer, p, tokens, finish_reason, parsed) ==
  [buffer |-> buffer, yielded |-> p.yielded, detected |-> p.detected,
   tokens |-> tokens,
   finished |-> parsed.found /\ parsed.tool_calls # <<>>,
   out |-> IF parsed.found /\ parsed.tool_calls # <<>>
           THEN p.out \o ToolCallFrames(parsed.tool_calls) \o <<FinishFrame("tool_calls")>>
           ELSE p.out,
   brk |-> parsed.found /\ parsed.tool_calls # <<>>,
   raised |-> parsed.raised]

\* lines 267-314: the end of an iteration, p being what lines 236-265 did
\* and parsed what line 270 returned (NoResult if it was not reached)
Completed(buffer, p, tokens, finish_reason, parsed) ==
  [buffer |-> buffer, yielded |-> p.yielded, detected |-> p.detected,
   tokens |-> tokens,
   finished |-> parsed.found /\ parsed.tool_calls # <<>>,
   out |-> IF parsed.found /\ parsed.tool_calls # <<>>
           THEN p.out \o ToolCallFrames(parsed.tool_calls) \o <<FinishFrame("tool_calls")>>
           ELSE p.out,
   brk |-> (parsed.found /\ parsed.tool_calls # <<>>) \/ finish_reason # "null",
   raised |-> parsed.raised]

\* lines 236-314: an iteration that did not break at lines 226-234
Scanned(buffer, detected0, tokens1, finish_reason, p) ==
  Completed(buffer, p,
            IF ~detected0 /\ p.detected THEN 0 ELSE tokens1,
            finish_reason,
            IF p.detected /\ ClosingMarkerSeen(buffer)
            THEN parse_tool_calls(buffer, NoTools) ELSE NoResult)

\* an iteration in which line 225 counts every chunk consumed after the
\* detection, with text or without
LoopBody_CountsEveryChunk(buffer0, yielded0, detected0, tokens0, content, finish_reason) ==
  LET buffer == buffer0 \o content
      tokens1 == IF detected0 THEN tokens0 + 1 ELSE tokens0
  IN IF BreaksEarly(buffer, yielded0, detected0, tokens1, content)
     THEN [buffer |-> buffer, yielded |-> yielded0, detected |-> detected0,
           tokens |-> tokens1, finished |-> FALSE, out |-> <<>>,
           brk |-> TRUE, raised |-> FALSE]
     ELSE Scanned(buffer, detected0, tokens1, finish_reason,
                  IF detected0
                  THEN [detected |-> TRUE, out |-> <<>>, yielded |-> yielded0]
                  ELSE PlainStep(buffer, yielded0, content, finish_reason))

\* lines 207-314: one iteration of the loop for a chunk with choices, from
\* the state (buffer0, yielded0, detected0, tokens0): the new state, the frames
\* yielded, whether the loop is left (brk), whether an exception escaped
LoopBody(buffer0, yielded0, detected0, tokens0, content, finish_reason) ==
  LET buffer == buffer0 \o content
      tokens1 == IF content # <<>> /\ detected0 THEN tokens0 + 1 ELSE tokens0
  IN IF BreaksEarly(buffer, yielded0, detected0, tokens1, content)
     THEN [buffer |-> buffer, yielded |-> yielded0, detected |-> detected0,
           tokens |-> tokens1, finished |-> FALSE, out |-> <<>>,
           brk |-> TRUE, raised |-> FALSE]
     ELSE Scanned(buffer, detected0, tokens1, finish_reason,
                  IF detected0
                  THEN [detected |-> TRUE, out |-> <<>>, yielded |-> yielded0]
                  ELSE PlainStep(buffer, yielded0, content, finish_reason))

\* lines 355-356: remaining_text cut at each stop sequence in turn
CutAt(s, stop_seq) ==
  LET i == Find(s, stop_seq, 1) IN IF i = 0 THEN s ELSE SubSeq(s, 1, i - 1)
CutAtStops(s) == CutAt(CutAt(CutAt(s, IM_END), ENDOFTEXT), IM_START)

\* line 373 with the two reasons exchanged
final_reason_Swapped(finished) == IF finished THEN "stop" ELSE "tool_calls"

\* line 373
final_reason(finished) == IF finished THEN "tool_calls" ELSE "stop"

\* lines 385-388: the frames that end the response
Ending(finished) ==
  (IF ~finished THEN <<FinishFrame(final_reason(finished))>> ELSE <<>>)
    \o <<DoneFrame>>

\* the flush without lines 355-356: remaining_text is not cut at the stop
\* sequences
Flushed_NoCut(remaining_text, finished0, parsed) ==
  IF parsed.raised THEN [out |-> <<>>, finished |-> finished0, raised |-> TRUE]
  ELSE IF parsed.found /\ parsed.tool_calls # <<>>
  THEN [out |-> ToolCallFrames(parsed.tool_calls) \o Ending(TRUE),
        finished |-> TRUE, raised |-> FALSE]
  ELSE [out |-> (IF Strip(remaining_text) # <<>>
                 THEN <<ContentFrame(remaining_text, "null")>> ELSE <<>>)
                  \o Ending(FALSE),
        finished |-> FALSE, raised |-> FALSE]

\* the flush without line 351: remaining_text is not cleared after the calls
Flushed_KeepsText(remaining_text, finished0, parsed) ==
  IF parsed.raised THEN [out |-> <<>>, finished |-> finished0, raised |-> TRUE]
  ELSE [out |-> (IF parsed.found /\ parsed.tool_calls # <<>>
                 THEN ToolCallFrames(parsed.tool_calls) ELSE <<>>)
                  \o (IF Strip(CutAtStops(remaining_text)) # <<>>
                      THEN <<ContentFrame(CutAtStops(remaining_text), "null")>> ELSE <<>>)
                  \o Ending(parsed.found /\ parsed.tool_calls # <<>>),
        finished |-> parsed.found /\ parsed.tool_calls # <<>>, raised |-> FALSE]

\* lines 326-370: the flush of a non-empty tail, parsed being what line 325
\* returned (NoResult if no tool call was detected)
Flushed(remaining_text, finished0, parsed) ==
  IF parsed.raised THEN [out |-> <<>>, finished |-> finished0, raised |-> TRUE]
  ELSE IF parsed.found /\ parsed.tool_calls # <<>>
  THEN [out |-> ToolCallFrames(parsed.tool_calls) \o Ending(TRUE),
        finished |-> TRUE, raised |-> FALSE]
  ELSE [out |-> (IF Strip(CutAtStops(remaining_text)) # <<>>
                 THEN <<ContentFrame(CutAtStops(remaining_text), "null")>> ELSE <<>>)
                  \o Ending(FALSE),
        finished |-> FALSE, raised |-> FALSE]

\* the flush without the test of finished_with_tool_calls at line 320: it
\* runs also after the loop has emitted the calls
AfterLoop_IgnoresFinished(buffer, yielded, detected, finished0) ==
  IF Len(buffer) > yielded
  THEN Flushed(PySuffix(buffer, yielded), finished0,
               IF detected THEN parse_tool_calls(buffer, NoTools) ELSE NoResult)
  ELSE [out |-> Ending(finished0), finished |-> finished0, raised |-> FALSE]

\* the flush with remaining_text taken as the whole buffer, as if line 321
\* did not skip the text already yielded
AfterLoop_FlushesAll(buffer, yielded, detected, finished0) ==
  IF ~finished0 /\ Len(buffer) > yielded
  THEN Flushed(buffer, finished0,
               IF detected THEN parse_tool_calls(buffer, NoTools) ELSE NoResult)
  ELSE [out |-> Ending(finished0), finished |-> finished0, raised |-> FALSE]

\* lines 319-388: everything after the loop: the frames yielded, finished, and
\* whether an exception escaped (then the frames are those yielded before it)
AfterLoop(buffer, yielded, detected, finished0) ==
  IF ~finished0 /\ Len(buffer) > yielded
  THEN Flushed(PySuffix(buffer, yielded), finished0,
               IF detected THEN parse_tool_calls(buffer, NoTools) ELSE NoResult)
  ELSE [out |-> Ending(finished0), finished |-> finished0, raised |-> FALSE]

----------------------------------------------------------------------------
(* The engine and the aggregator.  The engine delivers text in fragments of *)
(* fragLen characters, each with finish_reason None; after the last one a   *)
(* chunk with an empty delta carries the finish reason, or the sequence     *)
(* just ends.  Before the first text it may deliver chunks without choices. *)
(* It may raise at any point.  The texts of Bursts come in fragments as     *)
(* long as their first piece.                                               *)

MaxFragLen == 2
MaxMeta == 1

StreamStart ==
  /\ pc = "loop"
  /\ consumed = <<>>
  /\ pos = 0 /\ metaSeen = 0
  /\ content_buffer = <<>> /\ yielded_text_length = 0
  /\ tool_call_detected = FALSE /\ tokens_since_tool_detected = 0
  /\ finished_with_tool_calls = FALSE /\ frames = <<>>
  /\ schema = NoTools /\ result = NoResult
  /\ engine_response = <<>> /\ response = <<>>

Init ==
  /\ \/ segs \in SeqsUpTo(StreamPieces, MaxStreamSegs) /\ fragLen \in 0..MaxFragLen
     \/ segs \in Bursts /\ fragLen = Len(Vocab[segs[1]])
  /\ text = Flatten(segs, 1)
  /\ StreamStart
  /\ peer = NoPeer

\* what response_generator gives the for loop: a chunk with choices (the
\* text the engine put in its delta, its finish_reason, and the text its delta
\* holds now), a chunk without choices, its end, or an exception
Chunk(content, finish_reason) ==
  [kind |-> "chunk", content |-> content, finish |-> finish_reason, delta |-> content]
MetaChunk == [kind |-> "meta", content |-> <<>>, finish |-> "null", delta |-> <<>>]
EndOfChunks == [kind |-> "end", content |-> <<>>, finish |-> "null", delta |-> <<>>]
Raise == [kind |-> "raise", content |-> <<>>, finish |-> "null", delta |-> <<>>]

\* lines 247-248, 257-258: temp_chunk = dict(chunk) is a shallow copy, its
\* "choices" list is the chunk's own, so the delta assigned to
\* temp_chunk["choices"][0] replaces the delta of the engine's chunk: the
\* chunk as the iteration that yielded `out` leaves it (line 264 yields the
\* chunk itself)
Handled(chunk, out) ==
  IF out # <<>> /\ out[1].kind = "content"
  THEN [chunk EXCEPT !.delta = out[1].content]
  ELSE chunk

\* lines 207-314 for a chunk with choices, and lines 390-398 if it raises
Consume(content, finish_reason) ==
  \E s \in {LoopBody(content_buffer, yielded_text_length, tool_call_detected,
                   tokens_since_tool_detected, content, finish_reason)} :
       /\ consumed' = Append(consumed, Handled(Chunk(content, finish_reason), s.out))
       /\ content_buffer' = s.buffer
       /\ yielded_text_length' = s.yielded
       /\ tool_call_detected' = s.detected
       /\ tokens_since_tool_detected' = s.tokens
       /\ finished_with_tool_calls' = s.finished
       /\ frames' = frames \o s.out \o (IF s.raised THEN <<ErrorFrame>> ELSE <<>>)
       /\ pc' = IF s.raised THEN "done" ELSE IF s.brk THEN "flush" ELSE "loop"

\* the engine delivers the next fragment of text
Deliver ==
  /\ UNCHANGED <<process_vars, peer>>
  /\ pc = "loop"
  /\ pos < Len(text)
  /\ LET rest == Len(text) - pos
         k == IF fragLen = 0 \/ fragLen > rest THEN rest ELSE fragLen
     IN /\ pos' = pos + k
        /\ Consume(SubSeq(text, pos + 1, pos + k), "null")
  /\ UNCHANGED <<text, segs, fragLen, metaSeen, schema, result>>

\* the engine delivers a last chunk with an empty delta and a finish reason
DeliverFinish ==
  /\ UNCHANGED <<process_vars, peer>>
  /\ pc = "loop"
  /\ pos = Len(text)
  /\ Consume(<<>>, "stop")
  /\ UNCHANGED <<text, segs, fragLen, pos, metaSeen, schema, result>>

\* lines 315-317: a chunk without choices is forwarded as is
PassThrough ==
  /\ UNCHANGED <<process_vars, peer>>
  /\ pc = "loop"
  /\ pos = 0
  /\ metaSeen < MaxMeta
  /\ metaSeen' = metaSeen + 1
  /\ consumed' = Append(consumed, MetaChunk)
  /\ frames' = Append(frames, PassThroughFrame)
  /\ UNCHANGED <<text, segs, fragLen, pos, pc, content_buffer, yielded_text_length,
                 tool_call_detected, tokens_since_tool_detected,
                 finished_with_tool_calls, schema, result>>

\* the fragment sequence ends: the for loop is left
Exhaust ==
  /\ UNCHANGED <<process_vars, peer>>
  /\ pc = "loop"
  /\ pos = Len(text)
  /\ pc' = "flush"
  /\ consumed' = Append(consumed, EndOfChunks)
  /\ UNCHANGED <<text, segs, fragLen, pos, metaSeen, content_buffer,
                 yielded_text_length, tool_call_detected, tokens_since_tool_detected,
                 finished_with_tool_calls, frames, schema, result>>

\* lines 390-398: the engine raises while the next fragment is awaited
Fault ==
  /\ UNCHANGED <<process_vars, peer>>
  /\ pc = "loop"
  /\ frames' = Append(frames, ErrorFrame)
  /\ pc' = "done"
  /\ consumed' = Append(consumed, Raise)
  /\ UNCHANGED <<text, segs, fragLen, pos, metaSeen, content_buffer,
                 yielded_text_length, tool_call_detected, tokens_since_tool_detected,
                 finished_with_tool_calls, schema, result>>

\* lines 319-388, and lines 390-398 if the trailing parse raises
Flush ==
  /\ UNCHANGED <<process_vars, consumed, peer>>
  /\ pc = "flush"
  /\ \E a \in {AfterLoop(content_buffer, yielded_text_length, tool_call_detected,
                          finished_with_tool_calls)} :
        /\ finished_with_tool_calls' = a.finished
        /\ frames' = frames \o a.out \o (IF a.raised THEN <<ErrorFrame>> ELSE <<>>)
  /\ pc' = "done"
  /\ UNCHANGED <<text, segs, fragLen, pos, metaSeen, content_buffer,
                 yielded_text_length, tool_call_detected, tokens_since_tool_detected,
                 schema, result>>

Next == Deliver \/ DeliverFinish \/ PassThrough \/ Exhaust \/ Fault \/ Flush

Spec == Init /\ [][Next]_vars

----------------------------------------------------------------------------
(* Runaway generation: a short opening followed by MaxFiller characters of  *)
(* plain text, delivered one character per fragment; or by two characters,  *)
(* a call cut short.                                                        *)

MaxFiller == 505

Filler == [i \in 1..MaxFiller |-> "x"]

\* <tool_call>, <function=f>, a<function=f>, and a lone <
RunawayOpenings == {<<3>>, <<5>>, <<1, 5>>, <<2>>}

\* how many characters follow the opening
FillerLengths == {2, MaxFiller}

WatchdogInit ==
  /\ segs \in RunawayOpenings
  /\ \E n \in FillerLengths : text = Flatten(segs, 1) \o SubSeq(Filler, 1, n)
  /\ fragLen = 1
  /\ StreamStart
  /\ peer = NoPeer

SpecWatchdog == WatchdogInit /\ [][Next]_vars

----------------------------------------------------------------------------
(* A response_generator whose chunks may hold text and a finish reason at   *)
(* once: generation ends with that chunk, wherever in the text it is.       *)

\* the engine delivers a fragment of text together with a finish reason
DeliverLast ==
  /\ UNCHANGED <<process_vars, peer>>
  /\ pc = "loop"
  /\ pos < Len(text)
  /\ LET rest == Len(text) - pos
         k == IF fragLen = 0 \/ fragLen > rest THEN rest ELSE fragLen
     IN /\ pos' = pos + k
        /\ \E finish_reason \in {"stop", "length"} :
             Consume(SubSeq(text, pos + 1, pos + k), finish_reason)
  /\ UNCHANGED <<text, segs, fragLen, metaSeen, schema, result>>

FinishNext ==
  Deliver \/ DeliverLast \/ DeliverFinish \/ PassThrough \/ Exhaust \/ Fault \/ Flush

SpecFinish == Init /\ [][FinishNext]_vars

----------------------------------------------------------------------------
(* Two responses.  stream_chat_completion is a coroutine: what it holds is  *)
(* its locals (lines 198-205) and the response_generator it iterates.  It   *)
(* is suspended at a yield and the other response may run before it is      *)
(* resumed; here the other response may run after any step, which covers    *)
(* every interleaving the event loop can produce.                           *)

\* the locals of the running response, and its response_generator
Locals ==
  [text |-> text, segs |-> segs, fragLen |-> fragLen, pos |-> pos,
   metaSeen |-> metaSeen, pc |-> pc, content_buffer |-> content_buffer,
   yielded_text_length |-> yielded_text_length,
   tool_call_detected |-> tool_call_detected,
   tokens_since_tool_detected |-> tokens_since_tool_detected,
   finished_with_tool_calls |-> finished_with_tool_calls,
   frames |-> frames, consumed |-> consumed]

\* lines 195-207 at the start of a response over the pieces q
StartLocals(q, f) ==
  [text |-> Flatten(q, 1), segs |-> q, fragLen |-> f, pos |-> 0,
   metaSeen |-> 0, pc |-> "loop", content_buffer |-> <<>>,
   yielded_text_length |-> 0, tool_call_detected |-> FALSE,
   tokens_since_tool_detected |-> 0, finished_with_tool_calls |-> FALSE,
   frames |-> <<>>, consumed |-> <<>>]

\* what a resumed response would find if content_buffer were one module-level
\* variable instead of the local of line 198
Resumed_SharedBuffer(running, suspended) ==
  [suspended EXCEPT !.content_buffer = running.content_buffer]

\* lines 198-205: a resumed response finds its locals as it left them
Resumed(running, suspended) == suspended

\* a<function=f>, <a, a<|im_end|> and <function= > as texts of the two responses
PairSegs == {<<1, 5>>, <<2, 1>>, <<1, 11>>, <<10>>}

PairInit ==
  /\ segs \in PairSegs
  /\ text = Flatten(segs, 1)
  /\ fragLen \in {0, MaxFragLen}
  /\ StreamStart
  /\ peer \in {StartLocals(q, f) : q \in PairSegs, f \in {0, MaxFragLen}}

\* the running response is suspended and the other one is resumed
Switch ==
  /\ peer.pc # "done"
  /\ peer' = Locals
  /\ \E r \in {Resumed(Locals, peer)} :
       /\ text' = r.text /\ segs' = r.segs /\ fragLen' = r.fragLen
       /\ pos' = r.pos /\ metaSeen' = r.metaSeen /\ pc' = r.pc
       /\ content_buffer' = r.content_buffer
       /\ yielded_text_length' = r.yielded_text_length
       /\ tool_call_detected' = r.tool_call_detected
       /\ tokens_since_tool_detected' = r.tokens_since_tool_detected
       /\ finished_with_tool_calls' = r.finished_with_tool_calls
       /\ frames' = r.frames /\ consumed' = r.consumed
  /\ UNCHANGED <<schema, result, process_vars>>

PairNext ==
  Deliver \/ DeliverFinish \/ PassThrough \/ Exhaust \/ Fault \/ Flush \/ Switch

SpecPair == PairInit /\ [][PairNext]_vars

----------------------------------------------------------------------------
(* _process_tool_calls, qwen_server.py 549-588: the non-streaming path.     *)
(* A choice is its message's content (content_none: the content is None),   *)
(* its message's tool_calls (<<>>: the message has none) and its            *)
(* finish_reason; has_message: the choice holds a message.                  *)

\* config.py 45
ENABLE_TOOL_CALLING == TRUE

\* tool_parser.py 217-228
extract_text_before_tool_call(model_output) ==
  LET indices == {PyFind(model_output, tag) :
                    tag \in {tool_call_start_token, function_prefix}} \ {-1}
  IN IF indices # {} THEN Strip(PyPrefix(model_output, MinOf(indices)))
     ELSE Strip(model_output)

\* the choice with finish_reason set whenever its content held a tag, as if
\* line 584 stood outside the test of line 571
Converted_AlwaysToolCalls(choice, parsed) ==
  IF parsed.found /\ parsed.tool_calls # <<>>
  THEN [choice EXCEPT
          !.content = Strip(extract_text_before_tool_call(choice.content)),
          !.content_none = (Strip(extract_text_before_tool_call(choice.content)) = <<>>),
          !.tool_calls = parsed.tool_calls,
          !.finish_reason = "tool_calls"]
  ELSE [choice EXCEPT !.finish_reason = "tool_calls"]

\* lines 571-586: the choice after parse_tool_calls returned `parsed`
Converted(choice, parsed) ==
  IF parsed.found /\ parsed.tool_calls # <<>>
  THEN [choice EXCEPT
          !.content = Strip(extract_text_before_tool_call(choice.content)),
          !.content_none = (Strip(extract_text_before_tool_call(choice.content)) = <<>>),
          !.tool_calls = parsed.tool_calls,
          !.finish_reason = "tool_calls"]
  ELSE choice

\* lines 569-586: the iteration once line 569 was reached
ChoiceAfter(choice, parsed) ==
  [raised |-> parsed.raised,
   choice |-> IF parsed.raised THEN choice ELSE Converted(choice, parsed)]

\* lines 560-586: one iteration of the loop over the choices
ProcessChoice(choice) ==
  IF ~choice.has_message THEN [raised |-> FALSE, choice |-> choice]
  ELSE IF Contains(choice.content, tool_call_start_token)
            \/ Contains(choice.content, function_prefix)
  THEN ChoiceAfter(choice, parse_tool_calls(choice.content, NoTools))
  ELSE [raised |-> FALSE, choice |-> choice]

\* lines 549-588: the choices returned, or raised if an iteration raised
process_tool_calls(choices) ==
  IF ~ENABLE_TOOL_CALLING THEN [raised |-> FALSE, choices |-> choices]
  ELSE [raised |-> \E i \in 1..Len(choices) : ProcessChoice(choices[i]).raised,
        choices |-> [i \in 1..Len(choices) |-> ProcessChoice(choices[i]).choice]]

MaxChoices == 2

\* the contents of the engine's messages, as pieces of Vocab: nothing, text,
\* text then a call, calls, a name that is no key of param_map, an empty
\* name, a lone wrapper tag, a blank then a call
ProcessContents ==
  {<<>>, <<1>>, <<1, 18>>, <<8>>, <<9>>, <<10>>, <<3>>, <<12, 7>>}

\* the choices of an engine response that carries no tool_calls
EngineChoices ==
  {[has_message |-> FALSE, content |-> <<>>, content_none |-> FALSE,
    tool_calls |-> <<>>, finish_reason |-> "stop"]}
  \cup {[has_message |-> TRUE, content |-> Flatten(q, 1), content_none |-> FALSE,
         tool_calls |-> <<>>, finish_reason |-> fr] :
          q \in ProcessContents, fr \in {"stop", "length"}}

ProcessInit ==
  /\ engine_response \in SeqsUpTo(EngineChoices, MaxChoices)
  /\ response = engine_response
  /\ pc = "process"
  /\ text = <<>> /\ segs = <<>> /\ schema = NoTools /\ result = NoResult
  /\ fragLen = 0 /\ pos = 0 /\ metaSeen = 0
  /\ content_buffer = <<>> /\ yielded_text_length = 0
  /\ tool_call_detected = FALSE /\ tokens_since_tool_detected = 0
  /\ finished_with_tool_calls = FALSE /\ frames = <<>>
  /\ consumed = <<>> /\ peer = NoPeer

\* line 540: response = _process_tool_calls(response); an exception leaves the
\* handler without a response (lines 544-546)
Process ==
  /\ pc = "process"
  /\ \E r \in {process_tool_calls(engine_response)} :
       /\ pc' = IF r.raised THEN "process_raised" ELSE "processed"
       /\ response' = IF r.raised THEN <<>> ELSE r.choices
  /\ UNCHANGED <<text, segs, schema, result, fragLen, pos, metaSeen,
                 content_buffer, yielded_text_length, tool_call_detected,
                 tokens_since_tool_detected, finished_with_tool_calls, frames,
                 engine_response, consumed, peer>>

ProcessNext == Process

SpecProcess == ProcessInit /\ [][ProcessNext]_vars

----------------------------------------------------------------------------
(* Properties of the aggregator *)

\* no error frame was yielded: neither the engine nor a processing step raised
NoFault == \A i \in 1..Len(frames) : frames[i].kind # "error"

\* the positions of the frames that carry a non-null finish reason
TerminalFrames == {i \in 1..Len(frames) : frames[i].finish # "null"}

\* the calls of the tool-call delta frames, in the order yielded
EmittedCalls ==
  LET deltas == Pick(frames, {i \in 1..Len(frames) : frames[i].kind = "tool_call"})
  IN [k \in 1..Len(deltas) |->
        [type |-> "function", name |-> deltas[k].name,
         arguments |-> deltas[k].arguments]]

\* the calls of a returned list, by name and arguments
Mappings(tool_calls) ==
  [k \in 1..Len(tool_calls) |->
     [type |-> tool_calls[k].type, name |-> tool_calls[k].name,
      arguments |-> tool_calls[k].arguments]]

\* the text holds one of the hard stop markers
HoldsStopMarker == \E indicator \in stop_indicators : Contains(text, indicator)

\* C1: a response that ends without a fault, whatever ended it, holds exactly
\* one frame with a non-null finish reason, and that frame is the last one
\* before the [DONE] sentinel.
TerminalUniqueness ==
  pc = "done" /\ NoFault =>
    /\ Len(frames) >= 2
    /\ frames[Len(frames)] = DoneFrame
    /\ TerminalFrames = {Len(frames) - 1}

\* C2: a text fed to the aggregator one character per fragment yields, across
\* the tool-call delta frames, the list of calls (names and arguments) that
\* parse_tool_calls returns for the whole text.
StreamingEquivalence ==
  pc = "done" /\ fragLen = 1 /\ NoFault /\ ~HoldsStopMarker
    /\ ~parse_tool_calls(text, NoTools).raised =>
      EmittedCalls = Mappings(parse_tool_calls(text, NoTools).tool_calls)

\* C3: a stream in which a call opening was detected and more than
\* WatchdogLimit further fragments with text arrived without a closing tag
\* ends with a terminal frame, "tool_calls" if the trailing parse recovered a
\* call and "stop" otherwise, followed by the sentinel.
WatchdogEndsResponse ==
  pc = "done" /\ NoFault /\ tool_call_detected
    /\ tokens_since_tool_detected > WatchdogLimit =>
      /\ Len(frames) >= 2
      /\ frames[Len(frames)] = DoneFrame
      /\ frames[Len(frames) - 1] =
           FinishFrame(IF EmittedCalls # <<>> THEN "tool_calls" ELSE "stop")

\* C4: when the engine or a processing step raises, exactly one error frame
\* is yielded and the [DONE] sentinel follows it as the last frame.
FaultEndsWithSentinel ==
  pc = "done" /\ ~NoFault =>
    /\ Cardinality({i \in 1..Len(frames) : frames[i].kind = "error"}) = 1
    /\ Len(frames) >= 2
    /\ frames[Len(frames) - 1] = ErrorFrame
    /\ frames[Len(frames)] = DoneFrame

----------------------------------------------------------------------------
(* Properties of the parser *)

\* the names a schema declares
SchemaNames(tools) == {tools.entries[k].name : k \in 1..Len(tools.entries)}

\* the required parameters a schema declares for a name it holds
RequiredOf(tools, name) ==
  tools.entries[CHOOSE k \in 1..Len(tools.entries) : tools.entries[k].name = name].required

\* the calls of tool_calls a schema lets through, in order
Filtered(tool_calls, tools) ==
  IF ~tools.given THEN tool_calls
  ELSE Pick(tool_calls,
            {i \in 1..Len(tool_calls) : tool_calls[i].name \in SchemaNames(tools)})

\* the blocks of the parsed text and, for the k-th block, its trimmed name,
\* its trimmed body, and the position of its call in the returned list
Blocks == func_blocks(text)
BlockName(k) == Strip(Blocks[k].func_name)
BlockBody(k) == Strip(Blocks[k].func_content)
CallIndex(k) == Cardinality({j \in 1..k : BlockName(j) # <<>>})
\* the k-th block has a name and holds no parameter tag
Untagged(k) ==
  BlockName(k) # <<>> /\ param_matches(Blocks[k].func_content) = <<>>

----------------------------------------------------------------------------
(* The JSON grammar, to read back what a call carries: strings (no raw      *)
(* control character, a backslash only in an escape), numbers, arrays and   *)
(* objects, with optional whitespace between the tokens.                    *)

EscapeLetters == {Quote, Backslash, "/", "b", "f", "n", "r", "t"}

RECURSIVE JsonStringEnd(_, _)
\* i is inside a string: the position after its closing quote, 0 if malformed
JsonStringEnd(s, i) ==
  IF i > Len(s) THEN 0
  ELSE IF s[i] = Quote THEN i + 1
  ELSE IF s[i] = Backslash
       THEN IF i + 1 <= Len(s) /\ s[i + 1] \in EscapeLetters
            THEN JsonStringEnd(s, i + 2) ELSE 0
  ELSE IF s[i] \in {"\n", "\r", "\t"} THEN 0
  ELSE JsonStringEnd(s, i + 1)

RECURSIVE JsonTextEnd(_, _), JsonArrayEnd(_, _), JsonMembersEnd(_, _)
\* the position after the JSON value that starts at i, 0 if there is none
JsonTextEnd(s, i) ==
  IF i > Len(s) THEN 0
  ELSE IF s[i] = Quote THEN JsonStringEnd(s, i + 1)
  ELSE IF \E d \in 1..10 : Digits[d] = s[i] THEN
    LET stops == {j \in i..Len(s) : \A d \in 1..10 : Digits[d] # s[j]}
    IN IF stops = {} THEN Len(s) + 1 ELSE MinOf(stops)
  ELSE IF s[i] = "[" THEN
    LET j == SkipWs(s, i + 1)
    IN IF j <= Len(s) /\ s[j] = "]" THEN j + 1 ELSE JsonArrayEnd(s, j)
  ELSE IF s[i] = "{" THEN
    LET j == SkipWs(s, i + 1)
    IN IF j <= Len(s) /\ s[j] = "}" THEN j + 1 ELSE JsonMembersEnd(s, j)
  ELSE 0
\* value (, value)* ] from i
JsonArrayEnd(s, i) ==
  LET e == JsonTextEnd(s, i)
      j == IF e = 0 THEN 0 ELSE SkipWs(s, e)
  IN IF e = 0 \/ j > Len(s) THEN 0
     ELSE IF s[j] = "]" THEN j + 1
     ELSE IF s[j] = "," THEN JsonArrayEnd(s, SkipWs(s, j + 1))
     ELSE 0
\* string : value (, string : value)* } from i
JsonMembersEnd(s, i) ==
  LET k == IF i <= Len(s) /\ s[i] = Quote THEN JsonStringEnd(s, i + 1) ELSE 0
      c == IF k = 0 THEN 0 ELSE SkipWs(s, k)
      e == IF c = 0 \/ c > Len(s) \/ s[c] # ":" THEN 0
           ELSE JsonTextEnd(s, SkipWs(s, c + 1))
      j == IF e = 0 THEN 0 ELSE SkipWs(s, e)
  IN IF e = 0 \/ j > Len(s) THEN 0
     ELSE IF s[j] = "}" THEN j + 1
     ELSE IF s[j] = "," THEN JsonMembersEnd(s, SkipWs(s, j + 1))
     ELSE 0

\* s is the text of one JSON object and nothing else
IsJsonObject(s) ==
  /\ s # <<>>
  /\ s[1] = "{"
  /\ JsonTextEnd(s, 1) = Len(s) + 1

\* C5: with a schema, the returned calls are the discovered calls whose names
\* the schema declares, in source order; without one, every discovered call
\* is returned.
SchemaFiltering ==
  pc = "parsed" /\ ~result.raised =>
    result.tool_calls = Filtered(parse_tool_calls(text, NoTools).tool_calls, schema)

\* C6: a block without parameter tags and with a non-empty trimmed body b,
\* whose name the schema declares with exactly one required parameter p,
\* yields a call with arguments exactly {p: b}, b kept as a string.
SingleRequiredFallback ==
  pc = "parsed" /\ ~result.raised /\ schema.given =>
    \A k \in 1..Len(Blocks) :
      Untagged(k) /\ BlockBody(k) # <<>> /\ BlockName(k) \in SchemaNames(schema)
        /\ Len(RequiredOf(schema, BlockName(k))) = 1 =>
          /\ CallIndex(k) <= Len(result.tool_calls)
          /\ result.tool_calls[CallIndex(k)].name = BlockName(k)
          /\ result.tool_calls[CallIndex(k)].arguments =
               <<[name |-> RequiredOf(schema, BlockName(k))[1],
                  value |-> StrValue(BlockBody(k))]>>

\* C7: a block without parameter tags, parsed with no schema or with a schema
\* that declares zero or several required parameters for its name, yields a
\* call with no arguments.
NoFabricatedArguments ==
  pc = "parsed" /\ ~result.raised =>
    \A k \in 1..Len(Blocks) :
      /\ Untagged(k)
      /\ \/ ~schema.given
         \/ /\ BlockName(k) \in SchemaNames(schema)
            /\ Len(RequiredOf(schema, BlockName(k))) # 1
      => /\ CallIndex(k) <= Len(result.tool_calls)
         /\ result.tool_calls[CallIndex(k)].name = BlockName(k)
         /\ result.tool_calls[CallIndex(k)].arguments = <<>>

\* C8: parse_tool_calls returns for every text; it never raises.
NeverRaises == pc = "parsed" => ~result.raised

\* the pieces that are one well-formed wrapped call block, with their names,
\* and the pieces of plain text
WrappedPieces == {7, 8, 9, 18, 19, 20, 21, 22, 23, 24, 25}
WrappedName(i) ==
  IF i = 8 THEN bash
  ELSE IF i = 9 THEN <<"B","a","s","h">>
  ELSE IF i = 20 THEN tasks
  ELSE <<"f">>
PlainPieces == {1, 12, 13, 16, 17}

\* C9: a text made of N >= 1 well-formed wrapped call blocks and plain text,
\* parsed without a schema, returns found = true and exactly N calls, named
\* as the blocks are, in the order of the blocks.
Completeness ==
  /\ pc = "parsed"
  /\ schema = NoTools
  /\ \A i \in 1..Len(segs) : segs[i] \in WrappedPieces \cup PlainPieces
  /\ \E i \in 1..Len(segs) : segs[i] \in WrappedPieces
  => /\ ~result.raised
     /\ result.found
     /\ LET wrapped == Pick(segs, {i \in 1..Len(segs) : segs[i] \in WrappedPieces})
        IN /\ Len(result.tool_calls) = Len(wrapped)
           /\ \A k \in 1..Len(wrapped) :
                result.tool_calls[k].name = WrappedName(wrapped[k])

\* C10: whenever parse_tool_calls returns, found is true exactly when the
\* returned list of calls is not empty.
FoundIffCalls ==
  pc = "parsed" /\ ~result.raised =>
    (result.found <=> result.tool_calls # <<>>)

\* a text with a function tag whose every block has an empty name was parsed:
\* nothing found, nothing returned
FoundIffCalls_EmptyNames ==
  /\ pc = "parsed" /\ ~result.raised
  /\ Contains(text, function_prefix)
  /\ Blocks # <<>>
  /\ \A k \in 1..Len(Blocks) : BlockName(k) = <<>>
  /\ ~result.found /\ result.tool_calls = <<>>

\* C11: every call parse_tool_calls returns has type "function", a name that
\* is not empty, and as arguments a string that is the text of a JSON object.
CallsAreWellFormed ==
  pc = "parsed" /\ ~result.raised =>
    \A k \in 1..Len(result.tool_calls) :
      /\ result.tool_calls[k].type = "function"
      /\ result.tool_calls[k].name # <<>>
      /\ IsJsonObject(result.tool_calls[k].arguments_json)

\* a call was returned whose arguments hold a string that json.dumps had to
\* escape, next to a block whose name is empty
CallsAreWellFormed_Escaped ==
  /\ pc = "parsed" /\ ~result.raised
  /\ \E k \in 1..Len(Blocks) : BlockName(k) = <<>>
  /\ \E k \in 1..Len(result.tool_calls) :
       /\ Contains(result.tool_calls[k].arguments_json, <<Backslash, "n">>)
       /\ result.tool_calls[k].arguments # <<>>

\* C12: in every state of the aggregator yielded_text_length is at most the
\* length of content_buffer, and no step makes yielded_text_length smaller.
YieldedLengthBounded ==
  /\ [](yielded_text_length <= Len(content_buffer))
  /\ [][yielded_text_length' >= yielded_text_length]_vars

\* text was yielded and a later part of the buffer is held back
YieldedLengthBounded_HeldBack ==
  /\ pc = "loop"
  /\ yielded_text_length > 0
  /\ yielded_text_length < Len(content_buffer)
  /\ \E i \in 1..Len(frames) : frames[i].kind = "content"

\* the frames a step adds hold no plain-text frame
NoNewText ==
  \A k \in (Len(frames) + 1)..Len(frames') : frames'[k].kind # "content"

\* C13: once finished_with_tool_calls is set, no plain-text frame is yielded:
\* none follows a tool-call delta frame, and no later step adds one.
NoTextAfterToolCalls ==
  /\ [](finished_with_tool_calls =>
          \A i, j \in 1..Len(frames) :
            i < j /\ frames[i].kind = "tool_call" => frames[j].kind # "content")
  /\ [][finished_with_tool_calls => NoNewText]_vars

\* a response ended with tool calls while the buffer held text that was never
\* yielded: text after the call, or the unclosed call itself
NoTextAfterToolCalls_TextLeft ==
  /\ pc = "done" /\ NoFault
  /\ finished_with_tool_calls
  /\ Len(content_buffer) > yielded_text_length
  /\ content_buffer[Len(content_buffer)] = "a"
  /\ \E i \in 1..Len(frames) : frames[i].kind = "tool_call"

\* the tags the parser and the aggregator recognise
RecognisedTags ==
  {tool_call_start_token, tool_call_end_token, function_prefix,
   function_end_token, parameter_prefix, parameter_end_token}

\* s ends with a "<" followed only by characters that form, with it, a
\* proper prefix of a recognised tag
EndsWithTagPrefix(s) ==
  \E i \in 1..Len(s) :
    /\ s[i] = "<"
    /\ \E tag \in RecognisedTags :
         /\ Len(s) - i + 1 < Len(tag)
         /\ MatchAt(tag, SubSeq(s, i, Len(s)), 1)

SentinelFollowsTerminal ==
  pc = "done" /\ NoFault =>
    /\ Cardinality({i \in 1..Len(frames) : frames[i].kind = "done"}) = 1
    /\ frames[Len(frames)].kind = "done"
    /\ Len(frames) >= 2
    /\ frames[Len(frames) - 1].kind = "finish"
    /\ frames[Len(frames) - 1].finish # "null"

RECURSIVE SpanNamesFrom(_, _)
\* for the wrapper spans from k on, the name of the first function tag inside
\* each, if it has one
SpanNamesFrom(spans, k) ==
  IF k > Len(spans) THEN <<>>
  ELSE (IF func_blocks(spans[k]) # <<>> /\ Strip(func_blocks(spans[k])[1].func_name) # <<>>
        THEN <<Strip(func_blocks(spans[k])[1].func_name)>> ELSE <<>>)
         \o SpanNamesFrom(spans, k + 1)

\* C17: when the text holds a <tool_call> wrapper span, the calls returned are
\* those of the first function tag inside each wrapper span, one per span at
\* most, and no function tag outside the spans gives a call.
WrapperSpansOnly ==
  pc = "parsed" /\ ~result.raised /\ tool_call_spans(text) # <<>> =>
    [k \in 1..Len(result.tool_calls) |-> result.tool_calls[k].name]
      = SpanNamesFrom(tool_call_spans(text), 1)

\* the value of a trimmed parameter body under strict decoding: the decoded
\* list/object if the body looks like one and is valid JSON, else the string
StrictValue(v) ==
  IF LooksStructured(v) /\ JsonDecodes(v) THEN DataValue(v) ELSE StrValue(v)

RECURSIVE StrictArgumentsFrom(_, _, _)
\* the arguments the parameter matches from k on give under strict decoding
StrictArgumentsFrom(matches, k, arguments) ==
  IF k > Len(matches) THEN arguments
  ELSE StrictArgumentsFrom(matches, k + 1,
         IF Strip(matches[k].group1) # <<>>
         THEN DictSet(arguments, Strip(matches[k].group1),
                      StrictValue(Strip(matches[k].group2)))
         ELSE arguments)

\* the parameter matches of the k-th block
BlockParams(k) == param_matches(Blocks[k].func_content)

\* C18: a parameter value is structured data only if its trimmed body looks
\* like a list/object and is valid JSON; in every other case it is the
\* trimmed body as a string.
StrictDecodingOnly ==
  pc = "parsed" /\ ~result.raised =>
    \A k \in 1..Len(Blocks) :
      BlockName(k) # <<>> /\ BlockParams(k) # <<>> =>
        /\ CallIndex(k) <= Len(result.tool_calls)
        /\ result.tool_calls[CallIndex(k)].arguments
             = StrictArgumentsFrom(BlockParams(k), 1, <<>>)

\* the i-th parameter of the k-th block is the last one of its name, and its
\* trimmed body is a valid JSON list or object
JsonParameter(k, i) ==
  /\ Strip(BlockParams(k)[i].group1) # <<>>
  /\ \A j \in (i + 1)..Len(BlockParams(k)) :
       Strip(BlockParams(k)[j].group1) # Strip(BlockParams(k)[i].group1)
  /\ LooksStructured(Strip(BlockParams(k)[i].group2))
  /\ JsonDecodes(Strip(BlockParams(k)[i].group2))

\* C19: a parameter whose body is a valid JSON array or object, blanks and
\* newlines around it or not, is held in the call's arguments as the decoded
\* array/object, and the serialized arguments write it as such, not as a
\* string.
JsonParametersDecoded ==
  pc = "parsed" /\ ~result.raised =>
    \A k \in 1..Len(Blocks) :
      BlockName(k) # <<>> =>
        \A i \in 1..Len(BlockParams(k)) :
          JsonParameter(k, i) =>
            /\ CallIndex(k) <= Len(result.tool_calls)
            /\ \E a \in 1..Len(result.tool_calls[CallIndex(k)].arguments) :
                 /\ result.tool_calls[CallIndex(k)].arguments[a].name
                      = Strip(BlockParams(k)[i].group1)
                 /\ result.tool_calls[CallIndex(k)].arguments[a].value.kind = "data"
                 /\ result.tool_calls[CallIndex(k)].arguments[a].value.text
                      = Decoded(Strip(BlockParams(k)[i].group2))
            /\ Contains(result.tool_calls[CallIndex(k)].arguments_json,
                        DumpString(Strip(BlockParams(k)[i].group1)) \o <<":", " ">>
                          \o DumpDataFrom(Decoded(Strip(BlockParams(k)[i].group2)), 1))

\* a block whose parameter body is a JSON list between newlines was parsed
JsonParametersDecoded_BetweenNewlines ==
  /\ pc = "parsed" /\ ~result.raised
  /\ \E k \in 1..Len(Blocks) :
       /\ BlockName(k) # <<>>
       /\ \E i \in 1..Len(BlockParams(k)) :
            /\ JsonParameter(k, i)
            /\ BlockParams(k)[i].group2[1] = "\n"
            /\ Len(Decoded(Strip(BlockParams(k)[i].group2))) > 2
  /\ result.tool_calls # <<>>

\* C20: after _process_tool_calls, a choice has finish_reason "tool_calls"
\* exactly when its message holds tool calls, which is exactly when parsing
\* the engine's content returns a call; a choice whose content gives no call
\* is as the engine returned it.
FinishReasonIffToolCalls ==
  pc = "processed" =>
    /\ Len(response) = Len(engine_response)
    /\ \A i \in 1..Len(response) :
         /\ response[i].finish_reason = "tool_calls" <=> response[i].tool_calls # <<>>
         /\ response[i].tool_calls # <<>> <=>
              /\ engine_response[i].has_message
              /\ parse_tool_calls(engine_response[i].content, NoTools).found
         /\ response[i].tool_calls = <<>> => response[i] = engine_response[i]

\* a response was processed in which one choice was given tool calls and
\* another, whose content holds a tag but no call, was left as it was
FinishReasonIffToolCalls_Mixed ==
  /\ pc = "processed"
  /\ \E i, j \in 1..Len(response) :
       /\ response[i].finish_reason = "tool_calls"
       /\ response[i].tool_calls # <<>>
       /\ Contains(engine_response[j].content, function_prefix)
       /\ response[j] = engine_response[j]

\* the string parameter-body form of an argument value: a string is its own
\* body, a decoded list/object is written as json.dumps writes it
ParameterBody(v) ==
  IF v.kind = "str" THEN v.text ELSE DumpDataFrom(v.text, 1)

\* the values coercion produced for the parameters of the parsed text
CoercedValues ==
  UNION {{CoerceValue(Strip(BlockParams(k)[i].group2)) :
            i \in 1..Len(BlockParams(k))} : k \in 1..Len(Blocks)}

\* C21: every value coercion produces has a string parameter-body form, and
\* coercing that form again gives an equal value.
CoercionIdempotent ==
  pc = "parsed" =>
    \A v \in CoercedValues :
      /\ v.dumpable
      /\ CoerceValue(Strip(ParameterBody(v))) = v

\* the state of a response that runs alone: its locals and its frames
AloneStart ==
  [pc |-> "loop", buffer |-> <<>>, yielded |-> 0, detected |-> FALSE,
   tokens |-> 0, finished |-> FALSE, frames |-> <<>>]

\* the state st after the iteration s = LoopBody(...) of a response alone
AloneAfter(st, s) ==
  [pc |-> IF s.raised THEN "done" ELSE IF s.brk THEN "flush" ELSE "loop",
   buffer |-> s.buffer, yielded |-> s.yielded, detected |-> s.detected,
   tokens |-> s.tokens, finished |-> s.finished,
   frames |-> st.frames \o s.out \o (IF s.raised THEN <<ErrorFrame>> ELSE <<>>)]

\* the state st after the for loop of a response alone got c
AloneStep(st, c) ==
  IF st.pc # "loop" THEN st
  ELSE IF c.kind = "chunk"
  THEN AloneAfter(st, LoopBody(st.buffer, st.yielded, st.detected, st.tokens,
                               c.content, c.finish))
  ELSE IF c.kind = "meta" THEN [st EXCEPT !.frames = Append(@, PassThroughFrame)]
  ELSE IF c.kind = "end" THEN [st EXCEPT !.pc = "flush"]
  ELSE [st EXCEPT !.frames = Append(@, ErrorFrame), !.pc = "done"]

RECURSIVE AloneFrom(_, _, _)
\* the state of a response alone after its for loop got log[k], log[k+1], ...
AloneFrom(log, k, st) ==
  IF k > Len(log) THEN st ELSE AloneFrom(log, k + 1, AloneStep(st, log[k]))

\* the frames of a response alone after the flush a = AfterLoop(...)
AloneFlushed(st, a) ==
  st.frames \o a.out \o (IF a.raised THEN <<ErrorFrame>> ELSE <<>>)

\* the response with the locals l has, in st, the state of a response alone
SameAs(l, st) ==
  IF l.pc = "done" /\ st.pc = "flush"
  THEN l.frames = AloneFlushed(st, AfterLoop(st.buffer, st.yielded, st.detected,
                                             st.finished))
  ELSE /\ l.pc = st.pc
       /\ l.frames = st.frames
       /\ l.content_buffer = st.buffer
       /\ l.yielded_text_length = st.yielded
       /\ l.tool_call_detected = st.detected
       /\ l.tokens_since_tool_detected = st.tokens

\* the response with the locals l is where it would be, run alone on what it
\* consumed
RunsAsAlone(l) == SameAs(l, AloneFrom(l.consumed, 1, AloneStart))

OpeningMarkers == {tool_call_start_token, function_prefix}

OpeningSeen(buffer) == \E m \in OpeningMarkers : Contains(buffer, m)

\* the 0-based start of the earliest call-opening marker of a buffer that
\* holds one
EarliestOpening(buffer) ==
  MinOf({PyFind(buffer, m) : m \in OpeningMarkers} \ {-1})

\* this step consumes the fragment that first brings a call-opening marker
\* into the buffer, and no hard stop marker with it
FirstOpening ==
  /\ pc = "loop"
  /\ ~OpeningSeen(content_buffer)
  /\ OpeningSeen(content_buffer')
  /\ \A indicator \in stop_indicators :
       Find(content_buffer', indicator, yielded_text_length + 1) = 0

\* the frames this step emitted
NewFrames == SubSeq(frames', Len(frames) + 1, Len(frames'))

\* the content of the plain-text frames among fs, in order
RECURSIVE TextsFrom(_, _)
TextsFrom(fs, k) ==
  IF k > Len(fs) THEN <<>>
  ELSE (IF fs[k].kind = "content" THEN <<fs[k].content>> ELSE <<>>)
         \o TextsFrom(fs, k + 1)

\* C23: the fragment that first brings a call-opening marker into the buffer
\* makes the aggregator emit the unyielded text strictly before the earliest
\* such marker as one plain-text frame (none if that text is empty), and
\* leaves yielded_text_length at the start of that marker.
TextBeforeEarliestOpening ==
  [][FirstOpening =>
       /\ yielded_text_length' = EarliestOpening(content_buffer')
       /\ TextsFrom(NewFrames, 1)
            = IF EarliestOpening(content_buffer') > yielded_text_length
              THEN <<SubSeq(content_buffer', yielded_text_length + 1,
                            EarliestOpening(content_buffer'))>>
              ELSE <<>>]_vars

\* a call was opened, the buffer holds a closing marker, and parsing the
\* whole buffer returns calls
CallsComplete ==
  /\ tool_call_detected
  /\ ClosingMarkerSeen(content_buffer)
  /\ ~parse_tool_calls(content_buffer, NoTools).raised
  /\ parse_tool_calls(content_buffer, NoTools).found

\* fs ends with the frames tail, and holds no tool-call delta and no frame
\* with an empty delta before them
EndsWithOnly(fs, tail) ==
  /\ Len(fs) >= Len(tail)
  /\ SubSeq(fs, Len(fs) - Len(tail) + 1, Len(fs)) = tail
  /\ \A i \in 1..(Len(fs) - Len(tail)) : fs[i].kind \notin {"tool_call", "finish"}

\* C24: once a call was opened, the buffer holds a closing marker and parsing
\* it returns n >= 1 calls, no further fragment is consumed, and the response
\* ends with n tool-call deltas (index 0..n-1, in parser order, finish_reason
\* null), then one frame with finish_reason "tool_calls", then the sentinel.
CompleteCallsEndResponse ==
  /\ [](pc = "done" /\ NoFault /\ CallsComplete =>
          EndsWithOnly(frames,
                       ToolCallFrames(parse_tool_calls(content_buffer, NoTools).tool_calls)
                         \o <<FinishFrame("tool_calls"), DoneFrame>>))
  /\ [][CallsComplete => consumed' = consumed]_vars

\* the for loop got a chunk that carries a finish reason
FinishSeen ==
  \E i \in 1..Len(consumed) :
    consumed[i].kind = "chunk" /\ consumed[i].finish # "null"

\* the text of the chunks of log from k on
RECURSIVE ContentsFrom(_, _)
ContentsFrom(log, k) ==
  IF k > Len(log) THEN <<>> ELSE log[k].content \o ContentsFrom(log, k + 1)

\* C25: a fragment that carries a finish reason has its text buffered, is the
\* last one consumed, and takes the aggregator out of the loop to the flush;
\* the response then ends with the sentinel.
FinishReasonEndsConsumption ==
  /\ [](FinishSeen =>
          /\ pc \in {"flush", "done"}
          /\ content_buffer = ContentsFrom(consumed, 1)
          /\ pc = "done" /\ NoFault => frames[Len(frames)] = DoneFrame)
  /\ [][FinishSeen => consumed' = consumed]_vars

\* a fragment came with text and a finish reason while text was still to
\* come, and the response ended with that fragment's text emitted
FinishReasonEndsConsumption_MidText ==
  /\ pc = "done" /\ NoFault
  /\ pos < Len(text)
  /\ consumed[Len(consumed)].finish # "null"
  /\ consumed[Len(consumed)].content # <<>>
  /\ \E i \in 1..Len(frames) :
       frames[i].kind = "content"
         /\ Contains(frames[i].content, consumed[Len(consumed)].content)

\* the unyielded tail of the buffer holds a hard stop marker
StopInTail ==
  \E indicator \in stop_indicators :
    Find(content_buffer, indicator, yielded_text_length + 1) # 0

\* C26: once the unyielded tail of the buffer holds a hard stop marker, with
\* a call opened or not, the aggregator is out of the loop and consumes no
\* further fragment; the fragment that completed the marker takes it to the
\* flush without a frame being emitted.
HardStopEndsConsumption ==
  /\ [](StopInTail => pc \in {"flush", "done"})
  /\ [][StopInTail => consumed' = consumed]_vars
  /\ [][~StopInTail /\ StopInTail' => frames' = frames /\ pc' = "flush"]_vars

\* a hard stop marker was completed by a later fragment after a call was
\* opened, and the aggregator is at the flush
HardStopEndsConsumption_InCall ==
  /\ pc = "flush"
  /\ StopInTail
  /\ tool_call_detected
  /\ Len(consumed) > 2
  /\ consumed[Len(consumed)].content # <<>>

\* the text s up to the first hard stop marker in it
CutAtFirstStop(s) ==
  LET hits == {Find(s, indicator, 1) : indicator \in stop_indicators} \ {0}
  IN IF hits = {} THEN s ELSE SubSeq(s, 1, MinOf(hits) - 1)

\* the tool-call deltas among fs, in order
RECURSIVE DeltasFrom(_, _)
DeltasFrom(fs, k) ==
  IF k > Len(fs) THEN <<>>
  ELSE (IF fs[k].kind = "tool_call" THEN <<fs[k]>> ELSE <<>>) \o DeltasFrom(fs, k + 1)

\* this step is the final flush of a response that saw a call-opening marker
\* and has emitted no calls
FlushOfOpenedCall ==
  pc = "flush" /\ tool_call_detected /\ ~finished_with_tool_calls

\* what the claim C27 says the flush emits, parsed being the result of parsing
\* the whole buffer and rest the unyielded text up to the first hard stop marker
FlushEmits(parsed, rest) ==
  IF ~parsed.raised /\ parsed.found
  THEN /\ DeltasFrom(NewFrames, 1) = ToolCallFrames(parsed.tool_calls)
       /\ TextsFrom(NewFrames, 1) = <<>>
       /\ finished_with_tool_calls'
  ELSE /\ DeltasFrom(NewFrames, 1) = <<>>
       /\ TextsFrom(NewFrames, 1) = IF Strip(rest) # <<>> THEN <<rest>> ELSE <<>>
       /\ ~finished_with_tool_calls'

\* C27: the final flush of a response that saw a call-opening marker and has
\* emitted no calls parses the whole buffer, closing marker or not: if that
\* returns calls it emits one tool-call delta per call, sets
\* finished_with_tool_calls and emits no text; otherwise it emits the unyielded
\* text up to the first hard stop marker as one plain-text frame, unless that
\* text is empty or blank.
FlushRecoversOpenedCall ==
  [][FlushOfOpenedCall =>
       FlushEmits(parse_tool_calls(content_buffer, NoTools),
                  CutAtFirstStop(PySuffix(content_buffer, yielded_text_length)))]_vars

\* the text of the plain-text frames among fs from k on, concatenated
RECURSIVE EmittedText(_, _)
EmittedText(fs, k) ==
  IF k > Len(fs) THEN <<>>
  ELSE (IF fs[k].kind = "content" THEN fs[k].content ELSE <<>>)
         \o EmittedText(fs, k + 1)

\* C28: at every point the text of the plain-text frames emitted so far, put
\* together, is a prefix of the buffer, and no plain-text frame comes after a
\* tool-call delta.
FramesFollowTheText ==
  /\ StartsWith(content_buffer, EmittedText(frames, 1))
  /\ \A i, j \in 1..Len(frames) :
       frames[i].kind = "tool_call" /\ frames[j].kind = "content" => j < i

\* a response ended after text was emitted in the loop, then more at the
\* flush
FramesFollowTheText_TwoFrames ==
  /\ pc = "done" /\ NoFault
  /\ \E i, j \in 1..Len(frames) :
       i < j /\ frames[i].kind = "content" /\ frames[j].kind = "content"
  /\ EmittedText(frames, 1) = content_buffer

\* the positions in c of the parameter-open tags <parameter=NAME>
ParameterOpens(c) ==
  {i \in 1..Len(c) :
     /\ MatchAt(c, parameter_prefix, i)
     /\ FindGt(c, i + Len(parameter_prefix)) > i + Len(parameter_prefix)}

\* the name of the tag at position i of c, and the position after its ">"
OpenName(c, i) ==
  SubSeq(c, i + Len(parameter_prefix), FindGt(c, i + Len(parameter_prefix)) - 1)
BodyStart(c, i) == FindGt(c, i + Len(parameter_prefix)) + 1

\* where the body that starts at b ends: at the earliest of </parameter>,
\* <parameter=, </function>, and the end of the text
BodyEnd(c, b) ==
  MinOf(({Find(c, parameter_end_token, b), Find(c, parameter_prefix, b),
          Find(c, function_end_token, b)} \ {0}) \cup {Len(c) + 1})

RECURSIVE BoundedArgumentsFrom(_, _, _)
\* the arguments the tags of c at or after `from` give when each body is
\* bounded so
BoundedArgumentsFrom(c, from, arguments) ==
  IF {i \in ParameterOpens(c) : i >= from} = {} THEN arguments
  ELSE LET i == MinOf({j \in ParameterOpens(c) : j >= from})
       IN BoundedArgumentsFrom(c, i + 1,
            IF Strip(OpenName(c, i)) # <<>>
            THEN DictSet(arguments, Strip(OpenName(c, i)),
                         CoerceValue(Strip(SubSeq(c, BodyStart(c, i),
                                                  BodyEnd(c, BodyStart(c, i)) - 1))))
            ELSE arguments)

\* C29: in a function body every parameter-open tag gives a parameter under
\* its own name, and its body ends at the earliest of its own </parameter>,
\* the next <parameter= tag, </function>, or the end of the text: a parameter
\* that is not closed absorbs no parameter that follows it.
ParameterBodiesAreBounded ==
  pc = "parsed" /\ ~result.raised =>
    \A k \in 1..Len(Blocks) :
      BlockName(k) # <<>> /\ ParameterOpens(Blocks[k].func_content) # {} =>
        /\ CallIndex(k) <= Len(result.tool_calls)
        /\ result.tool_calls[CallIndex(k)].arguments
             = BoundedArgumentsFrom(Blocks[k].func_content, 1, <<>>)

\* a call was parsed from a body whose first parameter is not closed and is
\* followed by another: both are among its arguments
ParameterBodiesAreBounded_Unclosed ==
  /\ pc = "parsed" /\ ~result.raised
  /\ \E k \in 1..Len(Blocks) :
       /\ BlockName(k) # <<>>
       /\ Cardinality(ParameterOpens(Blocks[k].func_content)) >= 2
       /\ \E i \in ParameterOpens(Blocks[k].func_content) :
            Find(Blocks[k].func_content, parameter_prefix, i + 1) # 0
              /\ (Find(Blocks[k].func_content, parameter_end_token, i) = 0
                  \/ Find(Blocks[k].func_content, parameter_end_token, i)
                       > Find(Blocks[k].func_content, parameter_prefix, i + 1))
       /\ Len(result.tool_calls[CallIndex(k)].arguments) >= 2

\* the positions in the parsed text of the tags <function=NAME> with no
\* </function> after them
UnclosedOpens ==
  {i \in 1..Len(text) :
     /\ MatchAt(text, function_prefix, i)
     /\ FindGt(text, i + Len(function_prefix)) > i + Len(function_prefix)
     /\ Find(text, function_end_token, i) = 0}

\* the name of the first of them, and the text closed after it
UnclosedName ==
  SubSeq(text, MinOf(UnclosedOpens) + Len(function_prefix),
         FindGt(text, MinOf(UnclosedOpens) + Len(function_prefix)) - 1)
ClosedText == text \o function_end_token

\* the last call of a result that returned calls
LastCall(r) == r.tool_calls[Len(r.tool_calls)]

\* C30: a <function=NAME> tag with no </function> after it (the first such
\* tag: its body runs to the end of the text) gives exactly one call, named
\* NAME, with the arguments the block gives when it is closed.
OpenEndedBlockGivesCall ==
  pc = "parsed" /\ UnclosedOpens # {} /\ Strip(UnclosedName) # <<>> =>
    /\ ~result.raised
    /\ result.tool_calls # <<>>
    /\ LastCall(result).name = Strip(UnclosedName)
    /\ Len(result.tool_calls) = Len(func_blocks(ClosedText))
         - Cardinality({k \in 1..Len(func_blocks(ClosedText)) :
                          Strip(func_blocks(ClosedText)[k].func_name) = <<>>})
    /\ ~parse_tool_calls(ClosedText, schema).raised =>
         LastCall(result) = LastCall(parse_tool_calls(ClosedText, schema))

\* the parameter-open tag at position i of the k-th block's body has a name,
\* a body that is empty or whitespace only, and no later tag of its name
BlankParameter(k, i) ==
  /\ Strip(OpenName(Blocks[k].func_content, i)) # <<>>
  /\ Strip(SubSeq(Blocks[k].func_content, BodyStart(Blocks[k].func_content, i),
                  BodyEnd(Blocks[k].func_content,
                          BodyStart(Blocks[k].func_content, i)) - 1)) = <<>>
  /\ \A j \in ParameterOpens(Blocks[k].func_content) :
       j > i => Strip(OpenName(Blocks[k].func_content, j))
                  # Strip(OpenName(Blocks[k].func_content, i))

\* the names of the parameter tags of the k-th block
TagNames(k) ==
  {Strip(OpenName(Blocks[k].func_content, i)) :
     i \in ParameterOpens(Blocks[k].func_content)}

\* C31: a parameter tag whose body is empty or whitespace only is stored in
\* the call's arguments under its name with the empty string as value, and
\* the block it stands in gets no argument from the zero-parameter fallback:
\* its arguments are named after its tags, and the fallback's KeyError is not
\* raised for it.
BlankParameterIsStored ==
  pc = "parsed" =>
    \A k \in 1..Len(Blocks) :
      \A i \in ParameterOpens(Blocks[k].func_content) :
        BlockName(k) # <<>> /\ BlankParameter(k, i) =>
          /\ ~ArgumentsOf(text, BlockName(k), Blocks[k].func_content,
                          BlockParams(k), schema).raised
          /\ ~result.raised =>
               /\ CallIndex(k) <= Len(result.tool_calls)
               /\ \E a \in 1..Len(result.tool_calls[CallIndex(k)].arguments) :
                    result.tool_calls[CallIndex(k)].arguments[a]
                      = [name |-> Strip(OpenName(Blocks[k].func_content, i)),
                         value |-> StrValue(<<>>)]
               /\ \A a \in 1..Len(result.tool_calls[CallIndex(k)].arguments) :
                    result.tool_calls[CallIndex(k)].arguments[a].name \in TagNames(k)

\* a call was parsed from a block whose only parameter has a blank body and
\* whose name the fallback would have failed on
BlankParameterIsStored_NoFallback ==
  /\ pc = "parsed" /\ ~result.raised
  /\ \E k \in 1..Len(Blocks) :
       /\ BlockName(k) # <<>>
       /\ norm_name(BlockName(k)) = bash /\ BlockName(k) \notin param_map_keys
       /\ BlockBody(k) # <<>>
       /\ \E i \in ParameterOpens(Blocks[k].func_content) :
            /\ BlankParameter(k, i)
            /\ BodyEnd(Blocks[k].func_content, BodyStart(Blocks[k].func_content, i))
                 > BodyStart(Blocks[k].func_content, i)
       /\ result.tool_calls[CallIndex(k)].arguments_json
            = <<"{", "\"", "p", "\"", ":", " ", "\"", "\"", "}">>

\* the trimmed body of the parameter tag at position i of the k-th block
TagBody(k, i) ==
  Strip(SubSeq(Blocks[k].func_content, BodyStart(Blocks[k].func_content, i),
               BodyEnd(Blocks[k].func_content, BodyStart(Blocks[k].func_content, i)) - 1))

\* v stands between one pair of back-ticks
Fenced(v) ==
  /\ Len(v) >= 3
  /\ v[1] = Backtick /\ v[Len(v)] = Backtick
  /\ v[2] # Backtick /\ v[Len(v) - 1] # Backtick

\* what is between the back-ticks, trimmed
Unfenced(v) == Strip(SubSeq(v, 2, Len(v) - 1))

\* C32: a parameter body between one layer of back-ticks is stored without
\* them: as the decoded list/object when what they enclose is a valid JSON
\* list/object, else as the trimmed string they enclose.
FencingIsStripped ==
  pc = "parsed" /\ ~result.raised =>
    \A k \in 1..Len(Blocks) :
      \A i \in ParameterOpens(Blocks[k].func_content) :
        /\ BlockName(k) # <<>>
        /\ Strip(OpenName(Blocks[k].func_content, i)) # <<>>
        /\ Fenced(TagBody(k, i))
        /\ \A j \in ParameterOpens(Blocks[k].func_content) :
             j > i => Strip(OpenName(Blocks[k].func_content, j))
                        # Strip(OpenName(Blocks[k].func_content, i))
        => /\ CallIndex(k) <= Len(result.tool_calls)
           /\ \E a \in 1..Len(result.tool_calls[CallIndex(k)].arguments) :
                result.tool_calls[CallIndex(k)].arguments[a]
                  = [name |-> Strip(OpenName(Blocks[k].func_content, i)),
                     value |-> StrictValue(Unfenced(TagBody(k, i)))]

\* C33: after any step, every chunk consumed holds what the engine produced:
\* the text of its delta is the text the engine put there, whether a
\* plain-text frame was derived from the chunk or not.
FragmentsAreNotModified ==
  \A i \in 1..Len(consumed) :
    consumed[i].kind = "chunk" => consumed[i].delta = consumed[i].content

\* the position in content_buffer at which the first call-opening marker to
\* be complete ends (0: the buffer holds none)
OpeningEnd ==
  LET ends == {Find(content_buffer, m, 1) + Len(m) - 1 :
                 m \in {n \in {tool_call_start_token, function_prefix} :
                          Contains(content_buffer, n)}}
  IN IF ends = {} THEN 0 ELSE MinOf(ends)

RECURSIVE TextLength(_, _, _)
\* the length of the text of log[lo], ..., log[hi]
TextLength(log, lo, hi) ==
  IF lo > hi THEN 0
  ELSE IF lo = hi THEN Len(log[lo].content)
  ELSE TextLength(log, lo, (lo + hi) \div 2)
         + TextLength(log, (lo + hi) \div 2 + 1, hi)

RECURSIVE ChunksBetween(_, _, _, _, _, _)
\* how many of the chunks log[lo], ..., log[hi] start at or after the buffer
\* position e, offset being the length of the text before log[lo]; with
\* textOnly, those among them that carry text
ChunksBetween(log, lo, hi, offset, e, textOnly) ==
  IF lo > hi THEN 0
  ELSE IF lo = hi
  THEN (IF log[lo].kind = "chunk" /\ offset >= e
             /\ (textOnly => log[lo].content # <<>>)
        THEN 1 ELSE 0)
  ELSE ChunksBetween(log, lo, (lo + hi) \div 2, offset, e, textOnly)
         + ChunksBetween(log, (lo + hi) \div 2 + 1, hi,
                         offset + TextLength(log, lo, (lo + hi) \div 2), e, textOnly)

\* the chunks consumed after the one in which the first opening marker was
\* complete
ChunksAfter(textOnly) ==
  ChunksBetween(consumed, 1, Len(consumed), 0, OpeningEnd, textOnly)

\* the for loop takes a chunk with choices while a call is open
ConsumesInCall ==
  /\ pc = "loop" /\ tool_call_detected
  /\ Len(consumed') = Len(consumed) + 1
  /\ consumed'[Len(consumed')].kind = "chunk"

\* C34: while a call is open the counter is incremented once for every
\* fragment consumed, and consumption stops for the flush as soon as it
\* exceeds 500: at most 501 fragments are consumed after the one in which the
\* opening marker was detected, and the counter never exceeds 501.
CounterCountsEveryFragment ==
  /\ [][ConsumesInCall =>
          tokens_since_tool_detected' = tokens_since_tool_detected + 1]_vars
  /\ [](tool_call_detected =>
          /\ tokens_since_tool_detected <= WatchdogLimit + 1
          /\ tokens_since_tool_detected > WatchdogLimit => pc \in {"flush", "done"}
          /\ ChunksAfter(FALSE) <= WatchdogLimit + 1)

\* C34, amended: while a call is open the counter is incremented once for
\* every consumed fragment that carries text and is left as it is by a
\* fragment without text; it is the number of fragments with text consumed
\* after the one in which the opening marker was detected, consumption stops
\* for the flush as soon as it exceeds 500, and it never exceeds 501.
CounterCountsTextFragments ==
  /\ [][ConsumesInCall =>
          tokens_since_tool_detected' = tokens_since_tool_detected
            + (IF consumed'[Len(consumed')].content # <<>> THEN 1 ELSE 0)]_vars
  /\ [](tool_call_detected =>
          /\ tokens_since_tool_detected <= WatchdogLimit + 1
          /\ tokens_since_tool_detected > WatchdogLimit => pc \in {"flush", "done"}
          /\ ChunksAfter(TRUE) = tokens_since_tool_detected)

\* the counter passed the limit and the aggregator left the loop for the flush
CounterCountsTextFragments_Runaway ==
  /\ pc = "flush" /\ tool_call_detected
  /\ tokens_since_tool_detected = WatchdogLimit + 1
  /\ ChunksAfter(TRUE) = WatchdogLimit + 1
  /\ pos < Len(text)

\* the finish reasons of the frames of fs that carry one, in order
RECURSIVE ReasonsFrom(_, _)
ReasonsFrom(fs, k) ==
  IF k > Len(fs) THEN <<>>
  ELSE (IF fs[k].finish # "null" THEN <<fs[k].finish>> ELSE <<>>)
         \o ReasonsFrom(fs, k + 1)

\* the aggregated output of a response with the frames fs: its plain text,
\* its calls by name and arguments, its finish reason, whether it failed
Aggregated(fs) ==
  [text |-> EmittedText(fs, 1),
   calls |-> [k \in 1..Len(DeltasFrom(fs, 1)) |->
                [name |-> DeltasFrom(fs, 1)[k].name,
                 arguments |-> DeltasFrom(fs, 1)[k].arguments]],
   finish |-> ReasonsFrom(fs, 1),
   failed |-> \E i \in 1..Len(fs) : fs[i].kind = "error"]

\* the frames of the response to the fragments of log, run to its end
FramesOf(log) ==
  LET st == AloneFrom(log, 1, AloneStart)
  IN IF st.pc = "flush"
     THEN AloneFlushed(st, AfterLoop(st.buffer, st.yielded, st.detected, st.finished))
     ELSE st.frames

\* the frames of the response when the engine delivers the whole text in one
\* fragment and then ends
WholeTextFrames ==
  FramesOf((IF text = <<>> THEN <<>> ELSE <<Chunk(text, "null")>>) \o <<EndOfChunks>>)

\* the engine delivered fragments of text only, and did not fail
TextFragmentsOnly ==
  \A i \in 1..Len(consumed) :
    /\ consumed[i].kind \in {"chunk", "end"}
    /\ consumed[i].kind = "chunk" => consumed[i].content # <<>> \/ consumed[i].finish # "null"

\* C35: the aggregated output of a response (its plain text put together, its
\* calls, its finish reason) does not depend on how the text was split into
\* fragments: it is what the response gives when the whole text comes in one
\* fragment.
OutputIndependentOfSplit ==
  pc = "done" /\ TextFragmentsOnly =>
    Aggregated(frames) = Aggregated(WholeTextFrames)

\* the text holds no call-opening marker
NoOpeningInText ==
  ~Contains(text, tool_call_start_token) /\ ~Contains(text, function_prefix)

\* C36: a response to a text without call-opening marker that ends without a
\* fault loses no text: its plain-text frames, put together, are the buffered
\* text up to the first hard stop marker (all of it if there is none), the
\* text held back after a < and a whitespace-only tail included.
NoTextIsLost ==
  pc = "done" /\ NoFault /\ NoOpeningInText =>
    EmittedText(frames, 1) = CutAtFirstStop(content_buffer)

\* the flush of this step emitted text although parsing the buffer returns a
\* call
TextDespiteCalls ==
  /\ TextsFrom(NewFrames, 1) # <<>>
  /\ ~parse_tool_calls(content_buffer, NoTools).raised
  /\ parse_tool_calls(content_buffer, NoTools).found

\* C37: once a call-opening marker was detected, tool_call_detected stays
\* true and no plain-text frame is emitted while fragments are consumed; what
\* was emitted as plain text before the flush ends before the earliest marker,
\* and the flush emits text only if parsing the buffer returned no call.
DetectionIsFinal ==
  /\ [][tool_call_detected =>
          /\ tool_call_detected'
          /\ pc = "loop" => TextsFrom(NewFrames, 1) = <<>>
          /\ pc = "flush" => ~TextDespiteCalls]_vars
  /\ [](tool_call_detected /\ pc \in {"loop", "flush"} =>
          Len(EmittedText(frames, 1)) <= EarliestOpening(content_buffer))

\* C38: the tool-call deltas of a response are emitted by one step only, the
\* one that saw the closing marker or the final flush, never by both: they
\* stand together in the frames, one per call the parse of the buffer
\* returned, with the indices 0, 1, ..., so no call is emitted twice.
CallsEmittedOnce ==
  /\ [][DeltasFrom(NewFrames, 1) # <<>> =>
          /\ DeltasFrom(frames, 1) = <<>>
          /\ pc \in {"loop", "flush"}
          /\ finished_with_tool_calls']_vars
  /\ [](DeltasFrom(frames, 1) # <<>> =>
          /\ ~parse_tool_calls(content_buffer, NoTools).raised
          /\ DeltasFrom(frames, 1)
               = ToolCallFrames(parse_tool_calls(content_buffer, NoTools).tool_calls)
          /\ \E i \in 1..Len(frames) :
               SubSeq(frames, i, i + Len(DeltasFrom(frames, 1)) - 1)
                 = DeltasFrom(frames, 1))

\* the step that saw the closing marker emitted two calls and ended the loop
\* with text left in the buffer, and the flush that followed emitted none
CallsEmittedOnce_FlushSkipped ==
  /\ pc = "done" /\ NoFault
  /\ Len(content_buffer) > yielded_text_length
  /\ Len(DeltasFrom(frames, 1)) = 2
  /\ \E i \in 1..Len(frames) : frames[i] = FinishFrame("tool_calls")

\* C39: no plain-text frame holds a complete hard stop marker, and the text
\* emitted as plain text is text of the buffer before its first hard stop
\* marker: nothing that follows the marker is emitted.
NoStopMarkerEmitted ==
  /\ \A i \in 1..Len(frames) :
       frames[i].kind = "content" =>
         \A indicator \in stop_indicators : ~Contains(frames[i].content, indicator)
  /\ StartsWith(CutAtFirstStop(content_buffer), EmittedText(frames, 1))

\* a response ended whose buffer holds text, a hard stop marker and text
\* after it: the text before the marker was emitted
NoStopMarkerEmitted_TextAround ==
  /\ pc = "done" /\ NoFault
  /\ EmittedText(frames, 1) # <<>>
  /\ EmittedText(frames, 1) = CutAtFirstStop(content_buffer)
  /\ \E indicator \in stop_indicators :
       Len(content_buffer) > Len(EmittedText(frames, 1)) + Len(indicator)
         /\ MatchAt(content_buffer, indicator, Len(EmittedText(frames, 1)) + 1)

====
